---- MODULE Spec2Model ----
(***************************************************************************)
(* Badminton Match Scheduler (src/app.js): the session state, the pairing  *)
(* engine (generateRound / generateMatches), the dispatch scheduler        *)
(* (startNextMatch) and the match lifecycle (completeMatch,                *)
(* completeCurrentMatches, saveScore), the roster handlers, the import and *)
(* the timers, as a state machine.                                         *)
(*                                                                         *)
(* JavaScript objects that are shared by reference (a match object is held *)
(* by state.matches, state.matchQueue and state.currentMatches at once)    *)
(* live in the heap matchObjs; the three collections hold references       *)
(* (indices into matchObjs).                                               *)
(***************************************************************************)
EXTENDS Integers, Sequences, FiniteSets, TLC

VARIABLES
    players,         \* state.players: sequence of player records
    matchObjs,       \* heap of match objects, indexed by reference
    matches,         \* state.matches: sequence of references
    currentMatches,  \* state.currentMatches: sequence of references
    matchQueue,      \* state.matchQueue: sequence of references
    rounds,          \* state.rounds: sequence of round records
    currentRound,    \* state.currentRound
    settings,        \* state.settings
    storage,         \* localStorage['badmintonScheduler']: <<>> or <<snapshot>>
    toast,           \* the last notification shown by showToast
    nextPlayerId,    \* generateId(): ids handed out to players so far
    rentalTimer      \* state.rentalTimer

vars == <<players, matchObjs, matches, currentMatches, matchQueue, rounds,
          currentRound, settings, storage, toast, nextPlayerId, rentalTimer>>

\* everything of the session state proper (what JSON.stringify(state) sees)
stateVars == <<players, matchObjs, matches, currentMatches, matchQueue,
               rounds, currentRound, settings, rentalTimer>>

-----------------------------------------------------------------------------
\* Bounds of the model

MaxPlayers == 2      \* players ever added in a session
MaxMatches == 2      \* match objects ever created in a session (Spec)
MaxRounds == 2       \* rounds ever created in a session (Spec)
MaxCourts == 2       \* largest court count the model sets (the code allows 10)
MaxQueued == 3       \* match objects and rounds ever created (SpecDispatch)
MaxPool == 4         \* roster size of the pairing specifications

-----------------------------------------------------------------------------
\* Constants of the program

LEVEL_WEIGHTS == [beginner |-> 1, intermediate |-> 2, advanced |-> 3, pro |-> 4]

Levels == DOMAIN LEVEL_WEIGHTS

\* the fixed order of the level groups in separateByLevel
LevelOrder == <<"pro", "advanced", "intermediate", "beginner">>

MatchTypes == {"singles", "doubles"}

PairingModes == {"random", "balanced", "separate"}

\* court: null of a match that is not on a court
NoCourt == 0

\* player.wins / player.losses before saveScore first initialises them
Undefined == -1

\* the code units of the space and of the line feed '\n'
Space == 32

LineFeed == 10

DefaultSettings ==
    [matchType |-> "doubles", pairingMode |-> "random",
     courtCount |-> 2, multiCourt |-> FALSE]

NoToast == [type |-> "none", msg |-> "none"]

NoAlerts == [min15 |-> FALSE, min10 |-> FALSE, min5 |-> FALSE]

\* state.rentalTimer as declared (endTime and widgetState, which only the
\* display reads, are left out)
DefaultRentalTimer ==
    [mode |-> "duration", duration |-> 120, remainingSeconds |-> 7200,
     isRunning |-> FALSE, alertsShown |-> NoAlerts]

-----------------------------------------------------------------------------
\* Array helpers

Range(s) == {s[i] : i \in 1..Len(s)}

Min(a, b) == IF a < b THEN a ELSE b

\* Array.prototype.findIndex, 1-based; 0 when nothing matches (-1 in the code)
FindIndex(s, Test(_)) ==
    IF \E i \in 1..Len(s) : Test(s[i])
    THEN CHOOSE i \in 1..Len(s) : Test(s[i]) /\ \A j \in 1..(i-1) : ~Test(s[j])
    ELSE 0

\* state.players.find(p => p.id === id), as an index (0: undefined)
FindPlayer(ps, id) == FindIndex(ps, LAMBDA p : p.id = id)

\* array.splice(i, 1): the array without its i-th entry
RemoveAt(s, i) == SubSeq(s, 1, i-1) \o SubSeq(s, i+1, Len(s))

\* Array.prototype.sort with comparator key(a) - key(b): a stable sort
\* ascending by key, key being given per position
StableSortBy(s, key) ==
    LET rank(i) == 1 + Cardinality({j \in 1..Len(s) :
                        key[j] < key[i] \/ (key[j] = key[i] /\ j < i)})
    IN [r \in 1..Len(s) |-> s[CHOOSE i \in 1..Len(s) : rank(i) = r]]

\* every array shuffleArray can return: the permutations of s
Shuffles(s) ==
    {[i \in 1..Len(s) |-> s[f[i]]] :
        f \in {g \in [1..Len(s) -> 1..Len(s)] :
                  \A a, b \in 1..Len(s) : a # b => g[a] # g[b]}}

\* shuffleArray that draws every place from the whole array, so that an
\* element can come out twice and another not at all
shuffleArray_withRepeats(array) ==
    {[i \in 1..Len(array) |-> array[f[i]]] : f \in [1..Len(array) -> 1..Len(array)]}

shuffleArray(array) == Shuffles(array)

\* Strings are sequences of UTF-16 code units (65..90: A..Z, 97..122: a..z).

\* String.prototype.toLowerCase on the letters A..Z
toLowerCase(str) ==
    [i \in 1..Len(str) |-> IF str[i] \in 65..90 THEN str[i] + 32 ELSE str[i]]

\* the white space of the strings of the model
WhiteSpace == {Space, LineFeed}

\* String.prototype.trim: the string without leading and trailing white space
RECURSIVE trim(_)
trim(str) ==
    IF str = <<>> THEN str
    ELSE IF Head(str) \in WhiteSpace THEN trim(Tail(str))
    ELSE IF str[Len(str)] \in WhiteSpace THEN trim(SubSeq(str, 1, Len(str) - 1))
    ELSE str

\* String.prototype.split('\n'): the lines of a text ("" has one empty line)
RECURSIVE split(_)
split(str) ==
    IF \A i \in 1..Len(str) : str[i] # LineFeed THEN <<str>>
    ELSE LET i == CHOOSE k \in 1..Len(str) :
                     str[k] = LineFeed /\ \A j \in 1..(k - 1) : str[j] # LineFeed
         IN <<SubSeq(str, 1, i - 1)>> \o split(SubSeq(str, i + 1, Len(str)))

\* NameTaken comparing the names as they are
NameTaken_caseSensitive(ps, name) ==
    \E i \in 1..Len(ps) : ps[i].name = name

\* state.players.some(p => p.name.toLowerCase() === name.toLowerCase())
NameTaken(ps, name) ==
    \E i \in 1..Len(ps) : toLowerCase(ps[i].name) = toLowerCase(name)

\* the name of the i-th player of a session whose names are not at issue:
\* "a", "b", "c", ...
PlayerName(i) == <<96 + i>>

\* the match objects a sequence of references denotes
Deref(objs, refs) == [i \in 1..Len(refs) |-> objs[refs[i]]]

\* the value JSON.stringify(state) writes
Serialize(ps, objs, ms, cur, q, rs, cr, st, rt) ==
    [players |-> ps, matches |-> Deref(objs, ms),
     currentMatches |-> Deref(objs, cur), matchQueue |-> Deref(objs, q),
     rounds |-> rs, settings |-> st, currentRound |-> cr, rentalTimer |-> rt]

\* saveToStorage(), called after the handler has mutated the state
saveToStorage ==
    storage' = <<Serialize(players', matchObjs', matches', currentMatches',
                           matchQueue', rounds', currentRound', settings',
                           rentalTimer')>>

showToast(msg, type) == toast' = [type |-> type, msg |-> msg]

-----------------------------------------------------------------------------
\* The empty session: const state = {...}, nothing in localStorage

Init ==
    /\ players = <<>>
    /\ matchObjs = <<>>
    /\ matches = <<>>
    /\ currentMatches = <<>>
    /\ matchQueue = <<>>
    /\ rounds = <<>>
    /\ currentRound = 0
    /\ settings = DefaultSettings
    /\ storage = <<>>
    /\ toast = NoToast
    /\ nextPlayerId = 1
    /\ rentalTimer = DefaultRentalTimer

-----------------------------------------------------------------------------
\* Settings

setMatchType(type) ==
    /\ settings' = [settings EXCEPT !.matchType = type]
    /\ UNCHANGED <<players, matchObjs, matches, currentMatches, matchQueue,
                   rounds, currentRound, nextPlayerId, rentalTimer>>
    /\ saveToStorage
    /\ showToast("matchTypeChanged", "success")

saveSetting(key, value) ==
    /\ settings' = [settings EXCEPT ![key] = value]
    /\ UNCHANGED <<players, matchObjs, matches, currentMatches, matchQueue,
                   rounds, currentRound, nextPlayerId, toast, rentalTimer>>
    /\ saveToStorage

\* the court-count input always shows settings.courtCount
adjustCourts(delta) ==
    LET newValue == IF settings.courtCount + delta < 1 THEN 1
                    ELSE Min(10, settings.courtCount + delta)
    IN saveSetting("courtCount", newValue)

-----------------------------------------------------------------------------
\* Player management

\* a player object as addPlayer and bulkAddPlayers build it (isResting,
\* where the literal leaves it out, is undefined, which every test reads
\* as false)
NewPlayer(id, name, level, stat) ==
    [id |-> id, name |-> name, level |-> level, matchCount |-> 0,
     isPlaying |-> FALSE, isResting |-> FALSE, wins |-> stat, losses |-> stat]

\* what the handlers leave alone when they reject their input
Rejected ==
    UNCHANGED <<players, matchObjs, matches, currentMatches, matchQueue,
                rounds, currentRound, settings, storage, nextPlayerId,
                rentalTimer>>

\* typed: the text of the name field; level: the level selected in the form
addPlayer(typed, level) ==
    LET name == trim(typed)
    IN IF name = <<>>
       THEN showToast("enterName", "error") /\ Rejected
       ELSE IF NameTaken(players, name)
       THEN showToast("nameTaken", "error") /\ Rejected
       ELSE /\ players' = Append(players, NewPlayer(nextPlayerId, name, level, Undefined))
            /\ nextPlayerId' = nextPlayerId + 1
            /\ UNCHANGED <<matchObjs, matches, currentMatches, matchQueue,
                           rounds, currentRound, settings, rentalTimer>>
            /\ saveToStorage
            /\ showToast("playerAdded", "success")

\* the forEach of bulkAddPlayers over the names: a name already in the
\* roster, as grown so far, is skipped
RECURSIVE BulkLoop(_, _, _)
BulkLoop(names, level, st) ==
    IF names = <<>> THEN st
    ELSE IF NameTaken(st.players, Head(names))
    THEN BulkLoop(Tail(names), level, [st EXCEPT !.skippedCount = @ + 1])
    ELSE BulkLoop(Tail(names), level,
            [players |-> Append(st.players, NewPlayer(st.nextId, Head(names), level, 0)),
             nextId |-> st.nextId + 1,
             addedCount |-> st.addedCount + 1,
             skippedCount |-> st.skippedCount])

\* text: the text of the textarea, one name per line
bulkAddPlayers(text, level) ==
    LET lines == split(text)
        names == SelectSeq([i \in 1..Len(lines) |-> trim(lines[i])],
                           LAMBDA n : Len(n) > 0)
        st == BulkLoop(names, level,
                 [players |-> players, nextId |-> nextPlayerId,
                  addedCount |-> 0, skippedCount |-> 0])
    IN IF Len(names) = 0
       THEN showToast("enterName", "error") /\ Rejected
       ELSE /\ players' = st.players
            /\ nextPlayerId' = st.nextId
            /\ UNCHANGED <<matchObjs, matches, currentMatches, matchQueue, rounds,
                           currentRound, settings, rentalTimer>>
            /\ saveToStorage
            /\ showToast(IF st.skippedCount > 0 THEN "bulkAddedSomeSkipped"
                         ELSE "bulkAdded", "success")

\* editPlayer as first declared; answer: what prompt() returns, "" standing
\* for null too (both are falsy)
editPlayer(id, answer) ==
    LET pi == FindPlayer(players, id)
    IN IF pi = 0 THEN UNCHANGED vars
       ELSE IF answer = <<>> \/ trim(answer) = <<>> THEN UNCHANGED vars
       ELSE /\ players' = [players EXCEPT ![pi].name = trim(answer)]
            /\ UNCHANGED <<matchObjs, matches, currentMatches, matchQueue, rounds,
                           currentRound, settings, nextPlayerId, rentalTimer>>
            /\ saveToStorage
            /\ showToast("playerEdited", "success")

\* id: the player the edit modal was opened for; typed, newLevel: the name
\* field and the level selected in the modal
saveEditPlayer(id, typed, newLevel) ==
    LET newName == trim(typed)
        pi == FindPlayer(players, id)
    IN IF newName = <<>>
       THEN showToast("enterName", "error") /\ Rejected
       ELSE IF pi = 0 THEN UNCHANGED vars
       ELSE /\ players' = [players EXCEPT ![pi].name = newName,
                                          ![pi].level = newLevel]
            /\ UNCHANGED <<matchObjs, matches, currentMatches, matchQueue, rounds,
                           currentRound, settings, nextPlayerId, rentalTimer>>
            /\ saveToStorage
            /\ showToast("playerEdited", "success")

-----------------------------------------------------------------------------
\* Pairing engine

Ids(ps) == [i \in 1..Len(ps) |-> ps[i].id]

Weights(ps) == [i \in 1..Len(ps) |-> LEVEL_WEIGHTS[ps[i].level]]

\* the while loop of balancePlayers over the array sorted strongest first:
\* shift, pop, shift, pop, then push(strongest, secondWeakest,
\* secondStrongest, weakest); what is left is appended
RECURSIVE BalanceGroups(_)
BalanceGroups(sorted) ==
    IF Len(sorted) >= 4
    THEN LET strongest == sorted[1]
             weakest == sorted[Len(sorted)]
             secondStrongest == sorted[2]
             secondWeakest == sorted[Len(sorted) - 1]
         IN <<strongest, secondWeakest, secondStrongest, weakest>>
              \o BalanceGroups(SubSeq(sorted, 3, Len(sorted) - 2))
    ELSE sorted

balancePlayers(ps) ==
    IF settings.matchType = "singles"
    THEN StableSortBy(ps, Weights(ps))
    ELSE BalanceGroups(StableSortBy(ps, [i \in 1..Len(ps) |-> 0 - Weights(ps)[i]]))

\* separateByLevel as one shuffle of all the players
separateByLevel_noGroups(ps) == shuffleArray(ps)

\* every array separateByLevel can return: the level groups in LevelOrder,
\* each shuffled on its own
RECURSIVE SeparateFrom(_, _)
SeparateFrom(ps, k) ==
    IF k > Len(LevelOrder) THEN {<<>>}
    ELSE {g \o rest :
            g \in shuffleArray(SelectSeq(ps, LAMBDA p : p.level = LevelOrder[k])),
            rest \in SeparateFrom(ps, k + 1)}

separateByLevel(ps) == SeparateFrom(ps, 1)

\* the orders the switch on settings.pairingMode can produce
ModeOrderings(ps) ==
    CASE settings.pairingMode = "random" -> shuffleArray(ps)
      [] settings.pairingMode = "balanced" -> {balancePlayers(ps)}
      [] settings.pairingMode = "separate" -> separateByLevel(ps)
      [] OTHER -> {ps}

\* MakeMatch with team2 sliced one place too early
MakeMatch_team2OffByOne(selectedPlayers, matchesCreated) ==
    LET playersPerTeam == IF settings.matchType = "doubles" THEN 2 ELSE 1
    IN [id |-> Len(matchObjs) + matchesCreated + 1,
        type |-> settings.matchType,
        team1 |-> Ids(SubSeq(selectedPlayers, 1, playersPerTeam)),
        team2 |-> Ids(SubSeq(selectedPlayers, playersPerTeam, Len(selectedPlayers))),
        status |-> "pending",
        court |-> NoCourt,
        roundId |-> 0,
        roundNumber |-> 0,
        winner |-> "none",
        scores |-> <<>>]

\* the match object literal of generateMatches, built from the selected
\* players (teams by slice(0, playersPerTeam) and slice(playersPerTeam))
MakeMatch(selectedPlayers, matchesCreated) ==
    LET playersPerTeam == IF settings.matchType = "doubles" THEN 2 ELSE 1
    IN [id |-> Len(matchObjs) + matchesCreated + 1,
        type |-> settings.matchType,
        team1 |-> Ids(SubSeq(selectedPlayers, 1, playersPerTeam)),
        team2 |-> Ids(SubSeq(selectedPlayers, playersPerTeam + 1,
                             Len(selectedPlayers))),
        status |-> "pending",
        court |-> NoCourt,
        roundId |-> 0,
        roundNumber |-> 0,
        winner |-> "none",
        scores |-> <<>>]

\* the match-creation loop that forgets the players it has used
RECURSIVE CreateMatches_noUsed(_, _, _)
CreateMatches_noUsed(shuffledPlayers, usedPlayers, matchesCreated) ==
    LET playersPerMatch == IF settings.matchType = "doubles" THEN 4 ELSE 2
        available == SelectSeq(shuffledPlayers, LAMBDA p : p.id \notin usedPlayers)
        selectedPlayers == SubSeq(available, 1, playersPerMatch)
    IN IF matchesCreated >= settings.courtCount \/ Len(available) < playersPerMatch
       THEN <<>>
       ELSE <<MakeMatch(selectedPlayers, matchesCreated)>>
              \o CreateMatches_noUsed(shuffledPlayers, usedPlayers,
                                      matchesCreated + 1)

\* the match-creation loop of generateMatches
RECURSIVE CreateMatches(_, _, _)
CreateMatches(shuffledPlayers, usedPlayers, matchesCreated) ==
    LET playersPerMatch == IF settings.matchType = "doubles" THEN 4 ELSE 2
        available == SelectSeq(shuffledPlayers, LAMBDA p : p.id \notin usedPlayers)
        selectedPlayers == SubSeq(available, 1, playersPerMatch)
    IN IF matchesCreated >= settings.courtCount \/ Len(available) < playersPerMatch
       THEN <<>>
       ELSE <<MakeMatch(selectedPlayers, matchesCreated)>>
              \o CreateMatches(shuffledPlayers,
                               usedPlayers \cup Range(Ids(selectedPlayers)),
                               matchesCreated + 1)

\* SortByMatchCount as a sort that is not stable: players with equal
\* matchCount come out in the reverse of the order they went in
SortByMatchCount_tiesReversed(ps) ==
    LET rev == [i \in 1..Len(ps) |-> ps[Len(ps) + 1 - i]]
    IN StableSortBy(rev, [i \in 1..Len(rev) |-> rev[i].matchCount])

\* SortByMatchCount with the fairness pass left out
SortByMatchCount_none(ps) == ps

\* the fairness pass: shuffledPlayers.sort((a, b) => a.matchCount - b.matchCount)
SortByMatchCount(ps) == StableSortBy(ps, [i \in 1..Len(ps) |-> ps[i].matchCount])

\* generateMatches as first declared: order by pairing mode, stable sort by
\* matchCount, then the creation loop; the set of possible results
originalGenerateMatches(availablePlayers) ==
    {CreateMatches(SortByMatchCount(sh), {}, 0) : sh \in ModeOrderings(availablePlayers)}

\* generateMatches without the filter on resting players
generateMatches_noRestFilter(availablePlayers) ==
    originalGenerateMatches(availablePlayers)

\* generateMatches as reassigned: resting players are filtered out first
generateMatches(availablePlayers) ==
    originalGenerateMatches(SelectSeq(availablePlayers, LAMBDA p : ~p.isResting))

PlayersNeeded == IF settings.matchType = "doubles" THEN 4 ELSE 2

\* generateRound that puts the new matches at the front of the queue
generateRound_queueFront ==
    LET availablePlayers == SelectSeq(players, LAMBDA p : ~p.isPlaying)
    IN IF Len(availablePlayers) < PlayersNeeded
       THEN /\ showToast("needMorePlayers", "error")
            /\ UNCHANGED <<players, matchObjs, matches, currentMatches,
                           matchQueue, rounds, currentRound, settings, storage,
                           nextPlayerId, rentalTimer>>
       ELSE \E ms \in generateMatches(availablePlayers) :
            LET tagged == [i \in 1..Len(ms) |->
                              [ms[i] EXCEPT !.roundId = Len(rounds) + 1,
                                            !.roundNumber = currentRound + 1]]
                refs == [i \in 1..Len(ms) |-> Len(matchObjs) + i]
                round == [id |-> Len(rounds) + 1,
                          roundNumber |-> currentRound + 1,
                          matches |-> Ids(tagged)]
            IN /\ currentRound' = currentRound + 1
               /\ matchObjs' = matchObjs \o tagged
               /\ matches' = matches \o refs
               /\ matchQueue' = refs \o matchQueue
               /\ rounds' = Append(rounds, round)
               /\ UNCHANGED <<players, currentMatches, settings, nextPlayerId,
                              rentalTimer>>
               /\ saveToStorage
               /\ showToast("roundCreated", "success")

\* generateRound that counts a rejected call as a round
generateRound_countsRejected ==
    LET availablePlayers == SelectSeq(players, LAMBDA p : ~p.isPlaying)
    IN IF Len(availablePlayers) < PlayersNeeded
       THEN /\ showToast("needMorePlayers", "error")
            /\ currentRound' = currentRound + 1
            /\ UNCHANGED <<players, matchObjs, matches, currentMatches,
                           matchQueue, rounds, settings, storage, nextPlayerId,
                           rentalTimer>>
       ELSE \E ms \in generateMatches(availablePlayers) :
            LET tagged == [i \in 1..Len(ms) |->
                              [ms[i] EXCEPT !.roundId = Len(rounds) + 1,
                                            !.roundNumber = currentRound + 1]]
                refs == [i \in 1..Len(ms) |-> Len(matchObjs) + i]
                round == [id |-> Len(rounds) + 1,
                          roundNumber |-> currentRound + 1,
                          matches |-> Ids(tagged)]
            IN /\ currentRound' = currentRound + 1
               /\ matchObjs' = matchObjs \o tagged
               /\ matches' = matches \o refs
               /\ matchQueue' = matchQueue \o refs
               /\ rounds' = Append(rounds, round)
               /\ UNCHANGED <<players, currentMatches, settings, nextPlayerId,
                              rentalTimer>>
               /\ saveToStorage
               /\ showToast("roundCreated", "success")

generateRound ==
    LET availablePlayers == SelectSeq(players, LAMBDA p : ~p.isPlaying)
    IN IF Len(availablePlayers) < PlayersNeeded
       THEN /\ showToast("needMorePlayers", "error")
            /\ UNCHANGED <<players, matchObjs, matches, currentMatches,
                           matchQueue, rounds, currentRound, settings, storage,
                           nextPlayerId, rentalTimer>>
       ELSE \E ms \in generateMatches(availablePlayers) :
            LET tagged == [i \in 1..Len(ms) |->
                              [ms[i] EXCEPT !.roundId = Len(rounds) + 1,
                                            !.roundNumber = currentRound + 1]]
                refs == [i \in 1..Len(ms) |-> Len(matchObjs) + i]
                round == [id |-> Len(rounds) + 1,
                          roundNumber |-> currentRound + 1,
                          matches |-> Ids(tagged)]
            IN /\ currentRound' = currentRound + 1
               /\ matchObjs' = matchObjs \o tagged
               /\ matches' = matches \o refs
               /\ matchQueue' = matchQueue \o refs
               /\ rounds' = Append(rounds, round)
               /\ UNCHANGED <<players, currentMatches, settings, nextPlayerId,
                              rentalTimer>>
               /\ saveToStorage
               /\ showToast("roundCreated", "success")

-----------------------------------------------------------------------------
\* Dispatch scheduler

\* getAvailableCourts that counts the active matches instead of looking at
\* their courts: the first courtCount - n courts are taken to be free
getAvailableCourts_byCount ==
    SelectSeq([i \in 1..settings.courtCount |-> i],
              LAMBDA c : c <= settings.courtCount - Len(currentMatches))

\* getAvailableCourts with the free courts in descending order
getAvailableCourts_descending ==
    LET usedCourts == {matchObjs[currentMatches[i]].court : i \in 1..Len(currentMatches)}
    IN SelectSeq([i \in 1..settings.courtCount |-> settings.courtCount + 1 - i],
                 LAMBDA c : c \notin usedCourts)

\* getAvailableCourts(): the court numbers 1..courtCount no active match
\* holds, ascending
getAvailableCourts ==
    LET usedCourts == {matchObjs[currentMatches[i]].court : i \in 1..Len(currentMatches)}
    IN SelectSeq([i \in 1..settings.courtCount |-> i], LAMBDA c : c \notin usedCourts)

\* CanStart that lets busy players start whatever multiCourt says
CanStart_ignoresBusy(m, ps) ==
    \A k \in 1..Len(m.team1 \o m.team2) :
        FindPlayer(ps, (m.team1 \o m.team2)[k]) # 0

\* the test of matchQueue.findIndex in startNextMatch
CanStart(m, ps) ==
    \A k \in 1..Len(m.team1 \o m.team2) :
        LET pi == FindPlayer(ps, (m.team1 \o m.team2)[k])
        IN pi # 0 /\ (~ps[pi].isPlaying \/ settings.multiCourt)

\* one pass of the forEach that marks the members of a dispatched match as
\* playing, followed by the passes for the remaining members
RECURSIVE MarkPlaying(_, _)
MarkPlayingBody(ps, ids) ==
    IF ids = <<>> THEN ps
    ELSE LET pi == FindPlayer(ps, Head(ids))
             ps2 == IF pi = 0 THEN ps
                    ELSE [ps EXCEPT ![pi].isPlaying = TRUE,
                                    ![pi].matchCount = @ + 1]
         IN MarkPlaying(ps2, Tail(ids))

\* MarkPlaying that leaves matchCount as it is
RECURSIVE MarkPlaying_noCount(_, _)
MarkPlaying_noCount(ps, ids) ==
    IF ids = <<>> THEN ps
    ELSE LET pi == FindPlayer(ps, Head(ids))
             ps2 == IF pi = 0 THEN ps
                    ELSE [ps EXCEPT ![pi].isPlaying = TRUE]
         IN MarkPlaying_noCount(ps2, Tail(ids))

\* the forEach that marks the members of a dispatched match as playing; the
\* roster and the ids are values by the time a pass looks at them
MarkPlaying(ps, ids) ==
    CHOOSE out \in {MarkPlayingBody(p, l) : p \in {ps}, l \in {ids}} : TRUE

\* one iteration of the for loop of startNextMatch over the free courts,
\* followed by the iterations for the remaining courts
RECURSIVE StartLoop(_, _)
StartLoopBody(courts, st) ==
    IF courts = <<>> THEN st
    ELSE LET matchIndex == FindIndex(st.matchQueue,
                               LAMBDA r : CanStart(st.matchObjs[r], st.players))
         IN IF matchIndex = 0 THEN st
            ELSE LET ref == st.matchQueue[matchIndex]
                     match == [st.matchObjs[ref] EXCEPT !.status = "playing",
                                                      !.court = Head(courts)]
                 IN StartLoop(Tail(courts),
                      [players |-> MarkPlaying(st.players, match.team1 \o match.team2),
                       matchObjs |-> [st.matchObjs EXCEPT ![ref] = match],
                       matchQueue |-> RemoveAt(st.matchQueue, matchIndex),
                       currentMatches |-> Append(st.currentMatches, ref),
                       matchesStarted |-> st.matchesStarted + 1])

\* the for loop of startNextMatch over the free courts; the courts and the
\* loop's state are values by the time an iteration looks at them
StartLoop(courts, st) ==
    CHOOSE out \in {StartLoopBody(c, v) : c \in {courts}, v \in {st}} : TRUE

\* startNextMatch that looks at the courts before it looks at the queue
startNextMatch_courtsFirst ==
    LET availableCourts == getAvailableCourts
        st == StartLoop(availableCourts,
                  [players |-> players, matchObjs |-> matchObjs,
                   matchQueue |-> matchQueue, currentMatches |-> currentMatches,
                   matchesStarted |-> 0])
        unchanged == UNCHANGED <<players, matchObjs, matches, currentMatches,
                                 matchQueue, rounds, currentRound, settings,
                                 storage, nextPlayerId, rentalTimer>>
    IN IF Len(availableCourts) = 0
       THEN showToast("courtsFull", "error") /\ unchanged
       ELSE IF Len(matchQueue) = 0
       THEN showToast("queueEmpty", "info") /\ unchanged
       ELSE IF st.matchesStarted = 0
       THEN showToast("cannotStart", "error") /\ unchanged
       ELSE /\ players' = st.players
            /\ matchObjs' = st.matchObjs
            /\ matchQueue' = st.matchQueue
            /\ currentMatches' = st.currentMatches
            /\ UNCHANGED <<matches, rounds, currentRound, settings,
                           nextPlayerId, rentalTimer>>
            /\ saveToStorage
            /\ showToast("matchesStarted", "success")

startNextMatch ==
    LET availableCourts == getAvailableCourts
        st == StartLoop(availableCourts,
                  [players |-> players, matchObjs |-> matchObjs,
                   matchQueue |-> matchQueue, currentMatches |-> currentMatches,
                   matchesStarted |-> 0])
        unchanged == UNCHANGED <<players, matchObjs, matches, currentMatches,
                                 matchQueue, rounds, currentRound, settings,
                                 storage, nextPlayerId, rentalTimer>>
    IN IF Len(matchQueue) = 0
       THEN showToast("queueEmpty", "info") /\ unchanged
       ELSE IF Len(availableCourts) = 0
       THEN showToast("courtsFull", "error") /\ unchanged
       ELSE IF st.matchesStarted = 0
       THEN /\ players' = st.players
            /\ matchObjs' = st.matchObjs
            /\ matchQueue' = st.matchQueue
            /\ currentMatches' = st.currentMatches
            /\ UNCHANGED <<matches, rounds, currentRound, settings, storage,
                           nextPlayerId, rentalTimer>>
            /\ showToast("cannotStart", "error")
       ELSE /\ players' = st.players
            /\ matchObjs' = st.matchObjs
            /\ matchQueue' = st.matchQueue
            /\ currentMatches' = st.currentMatches
            /\ UNCHANGED <<matches, rounds, currentRound, settings,
                           nextPlayerId, rentalTimer>>
            /\ saveToStorage
            /\ showToast("matchesStarted", "success")

-----------------------------------------------------------------------------
\* Match lifecycle

\* one pass of the forEach that releases the members of a completed match,
\* followed by the passes for the remaining members
RECURSIVE Release(_, _)
ReleaseBody(ps, ids) ==
    IF ids = <<>> THEN ps
    ELSE LET pi == FindPlayer(ps, Head(ids))
         IN Release(IF pi = 0 THEN ps ELSE [ps EXCEPT ![pi].isPlaying = FALSE],
                    Tail(ids))

\* Release that leaves the members marked as playing
Release_keepsBusy(ps, ids) == ps

\* the forEach that releases the members of a completed match; the roster
\* and the ids are values by the time a pass looks at them
Release(ps, ids) ==
    CHOOSE out \in {ReleaseBody(p, l) : p \in {ps}, l \in {ids}} : TRUE

\* one pass of the forEach of completeCurrentMatches over
\* state.currentMatches, followed by the passes for the remaining matches
RECURSIVE CompleteAll(_, _)
CompleteAllBody(refs, st) ==
    IF refs = <<>> THEN st
    ELSE LET match == [st.matchObjs[Head(refs)] EXCEPT !.status = "completed"]
         IN CompleteAll(Tail(refs),
              [players |-> Release(st.players, match.team1 \o match.team2),
               matchObjs |-> [st.matchObjs EXCEPT ![Head(refs)] = match]])

\* the forEach of completeCurrentMatches over state.currentMatches; the
\* references and the loop's state are values by the time a pass looks at them
CompleteAll(refs, st) ==
    CHOOSE out \in {CompleteAllBody(r, v) : r \in {refs}, v \in {st}} : TRUE

\* completeCurrentMatches that marks the matches completed and leaves them
\* in the active set
completeCurrentMatches_keepsActive ==
    IF Len(currentMatches) = 0
    THEN /\ showToast("noActiveMatch", "info")
         /\ UNCHANGED <<players, matchObjs, matches, currentMatches,
                        matchQueue, rounds, currentRound, settings, storage,
                        nextPlayerId, rentalTimer>>
    ELSE LET st == CompleteAll(currentMatches,
                       [players |-> players, matchObjs |-> matchObjs])
         IN /\ players' = st.players
            /\ matchObjs' = st.matchObjs
            /\ UNCHANGED <<matches, currentMatches, matchQueue, rounds,
                           currentRound, settings, nextPlayerId, rentalTimer>>
            /\ saveToStorage
            /\ showToast("matchCompleted", "success")

completeCurrentMatches ==
    IF Len(currentMatches) = 0
    THEN /\ showToast("noActiveMatch", "info")
         /\ UNCHANGED <<players, matchObjs, matches, currentMatches,
                        matchQueue, rounds, currentRound, settings, storage,
                        nextPlayerId, rentalTimer>>
    ELSE LET st == CompleteAll(currentMatches,
                       [players |-> players, matchObjs |-> matchObjs])
         IN /\ players' = st.players
            /\ matchObjs' = st.matchObjs
            /\ currentMatches' = <<>>
            /\ UNCHANGED <<matches, matchQueue, rounds, currentRound, settings,
                           nextPlayerId, rentalTimer>>
            /\ saveToStorage
            /\ showToast("matchCompleted", "success")

\* completeMatch that gives up with an error when a member of the match is
\* not in the roster
completeMatch_needsMembers(matchId) ==
    LET matchIndex == FindIndex(currentMatches, LAMBDA r : matchObjs[r].id = matchId)
    IN IF matchIndex = 0 THEN UNCHANGED vars
       ELSE LET ref == currentMatches[matchIndex]
                match == [matchObjs[ref] EXCEPT !.status = "completed"]
            IN IF \E k \in 1..Len(match.team1 \o match.team2) :
                     FindPlayer(players, (match.team1 \o match.team2)[k]) = 0
               THEN /\ showToast("playerNotFound", "error")
                    /\ UNCHANGED <<players, matchObjs, matches, currentMatches,
                                   matchQueue, rounds, currentRound, settings,
                                   storage, nextPlayerId, rentalTimer>>
               ELSE /\ currentMatches' = RemoveAt(currentMatches, matchIndex)
                    /\ matchObjs' = [matchObjs EXCEPT ![ref] = match]
                    /\ players' = Release(players, match.team1 \o match.team2)
                    /\ UNCHANGED <<matches, matchQueue, rounds, currentRound,
                                   settings, nextPlayerId, rentalTimer>>
                    /\ saveToStorage
                    /\ showToast("matchCompleted", "success")

completeMatch(matchId) ==
    LET matchIndex == FindIndex(currentMatches, LAMBDA r : matchObjs[r].id = matchId)
    IN IF matchIndex = 0 THEN UNCHANGED vars
       ELSE LET ref == currentMatches[matchIndex]
                match == [matchObjs[ref] EXCEPT !.status = "completed"]
            IN /\ currentMatches' = RemoveAt(currentMatches, matchIndex)
               /\ matchObjs' = [matchObjs EXCEPT ![ref] = match]
               /\ players' = Release(players, match.team1 \o match.team2)
               /\ UNCHANGED <<matches, matchQueue, rounds, currentRound,
                              settings, nextPlayerId, rentalTimer>>
               /\ saveToStorage
               /\ showToast("matchCompleted", "success")

\* scores: <<score1Set1, score1Set2, score1Set3, score2Set1, score2Set2, score2Set3>>
Team1Wins(scores) ==
    (IF scores[1] > scores[4] THEN 1 ELSE 0) + (IF scores[2] > scores[5] THEN 1 ELSE 0)
      + (IF scores[3] > scores[6] THEN 1 ELSE 0)

Team2Wins(scores) ==
    (IF scores[4] > scores[1] THEN 1 ELSE 0) + (IF scores[5] > scores[2] THEN 1 ELSE 0)
      + (IF scores[6] > scores[3] THEN 1 ELSE 0)

\* Winner with equal set-win counts going to team1
Winner_tieToTeam1(scores) ==
    IF Team1Wins(scores) >= Team2Wins(scores) THEN "team1" ELSE "team2"

\* match.winner as saveScore derives it
Winner(scores) ==
    IF Team1Wins(scores) > Team2Wins(scores) THEN "team1"
    ELSE IF Team2Wins(scores) > Team1Wins(scores) THEN "team2" ELSE "draw"

\* UpdateStats counting a draw as a loss for both teams
UpdateStats_drawIsLoss(p, playerId, match) ==
    LET wins == IF p.wins = Undefined THEN 0 ELSE p.wins
        losses == IF p.losses = Undefined THEN 0 ELSE p.losses
        won == \/ (match.winner = "team1" /\ playerId \in Range(match.team1))
               \/ (match.winner = "team2" /\ playerId \in Range(match.team2))
    IN [p EXCEPT !.isPlaying = FALSE,
                 !.wins = IF won THEN wins + 1 ELSE wins,
                 !.losses = IF ~won THEN losses + 1 ELSE losses]

\* the statistics update of saveScore for one member id
UpdateStats(p, playerId, match) ==
    LET wins == IF p.wins = Undefined THEN 0 ELSE p.wins
        losses == IF p.losses = Undefined THEN 0 ELSE p.losses
        won == \/ (match.winner = "team1" /\ playerId \in Range(match.team1))
               \/ (match.winner = "team2" /\ playerId \in Range(match.team2))
    IN [p EXCEPT !.isPlaying = FALSE,
                 !.wins = IF won THEN wins + 1 ELSE wins,
                 !.losses = IF ~won /\ match.winner # "draw" THEN losses + 1
                            ELSE losses]

\* the forEach of saveScore over [...match.team1, ...match.team2]
RECURSIVE ScoreMembers(_, _, _)
ScoreMembers(ps, ids, match) ==
    IF ids = <<>> THEN ps
    ELSE LET pi == FindPlayer(ps, Head(ids))
         IN ScoreMembers(IF pi = 0 THEN ps
                         ELSE [ps EXCEPT ![pi] = UpdateStats(ps[pi], Head(ids), match)],
                         Tail(ids), match)

\* saveScore that, like openScoreModal, falls back on state.matches when the
\* match is not in the active set, and scores it again
saveScore_fromHistory(matchId, scores) ==
    LET matchIndex == FindIndex(currentMatches, LAMBDA r : matchObjs[r].id = matchId)
        mainMatchIndex == FindIndex(matches, LAMBDA r : matchObjs[r].id = matchId)
        ref == IF matchIndex # 0 THEN currentMatches[matchIndex] ELSE matches[mainMatchIndex]
        match == [matchObjs[ref] EXCEPT !.status = "completed",
                                        !.scores = scores,
                                        !.winner = Winner(scores)]
    IN IF matchIndex = 0 /\ mainMatchIndex = 0
       THEN /\ showToast("matchNotFound", "error")
            /\ UNCHANGED <<players, matchObjs, matches, currentMatches,
                           matchQueue, rounds, currentRound, settings, storage,
                           nextPlayerId, rentalTimer>>
       ELSE /\ currentMatches' = IF matchIndex = 0 THEN currentMatches
                                 ELSE RemoveAt(currentMatches, matchIndex)
            /\ matchObjs' = [matchObjs EXCEPT ![ref] = match]
            /\ players' = ScoreMembers(players, match.team1 \o match.team2, match)
            /\ UNCHANGED <<matches, matchQueue, rounds, currentRound, settings,
                           nextPlayerId, rentalTimer>>
            /\ saveToStorage
            /\ showToast("scoreSaved", "success")

saveScore(matchId, scores) ==
    LET matchIndex == FindIndex(currentMatches, LAMBDA r : matchObjs[r].id = matchId)
    IN IF matchIndex = 0
       THEN /\ showToast("matchNotFound", "error")
            /\ UNCHANGED <<players, matchObjs, matches, currentMatches,
                           matchQueue, rounds, currentRound, settings, storage,
                           nextPlayerId, rentalTimer>>
       ELSE LET ref == currentMatches[matchIndex]
                match == [matchObjs[ref] EXCEPT !.status = "completed",
                                                !.scores = scores,
                                                !.winner = Winner(scores)]
                mainMatchIndex == FindIndex(matches, LAMBDA r : matchObjs[r].id = matchId)
            IN /\ currentMatches' = RemoveAt(currentMatches, matchIndex)
               /\ matchObjs' = [matchObjs EXCEPT ![ref] = match]
               /\ players' = ScoreMembers(players, match.team1 \o match.team2, match)
               /\ matches' = IF mainMatchIndex = 0 THEN matches
                             ELSE [matches EXCEPT ![mainMatchIndex] = ref]
               /\ UNCHANGED <<matchQueue, rounds, currentRound, settings,
                              nextPlayerId, rentalTimer>>
               /\ saveToStorage
               /\ showToast("scoreSaved", "success")

-----------------------------------------------------------------------------
\* Roster operations on an existing player, queue shuffle

\* removePlayer without the test on player.isPlaying
removePlayer_noBusyTest(id, confirmed) ==
    LET pi == FindPlayer(players, id)
    IN IF pi = 0 THEN UNCHANGED vars
       ELSE IF ~confirmed THEN UNCHANGED vars
       ELSE /\ players' = SelectSeq(players, LAMBDA p : p.id # id)
            /\ UNCHANGED <<matchObjs, matches, currentMatches, matchQueue,
                           rounds, currentRound, settings, nextPlayerId,
                           rentalTimer>>
            /\ saveToStorage
            /\ showToast("playerRemoved", "info")

\* confirmed: the answer to the confirm() dialog
removePlayer(id, confirmed) ==
    LET pi == FindPlayer(players, id)
    IN IF pi = 0 THEN UNCHANGED vars
       ELSE IF players[pi].isPlaying
       THEN /\ showToast("cannotRemovePlaying", "error")
            /\ UNCHANGED <<players, matchObjs, matches, currentMatches,
                           matchQueue, rounds, currentRound, settings, storage,
                           nextPlayerId, rentalTimer>>
       ELSE IF ~confirmed THEN UNCHANGED vars
       ELSE /\ players' = SelectSeq(players, LAMBDA p : p.id # id)
            /\ UNCHANGED <<matchObjs, matches, currentMatches, matchQueue,
                           rounds, currentRound, settings, nextPlayerId,
                           rentalTimer>>
            /\ saveToStorage
            /\ showToast("playerRemoved", "info")

togglePlayerRest(id) ==
    LET pi == FindPlayer(players, id)
    IN IF pi = 0 THEN UNCHANGED vars
       ELSE IF players[pi].isPlaying
       THEN /\ showToast("cannotRestPlaying", "error")
            /\ UNCHANGED <<players, matchObjs, matches, currentMatches,
                           matchQueue, rounds, currentRound, settings, storage,
                           nextPlayerId, rentalTimer>>
       ELSE /\ players' = [players EXCEPT ![pi].isResting = ~@]
            /\ UNCHANGED <<matchObjs, matches, currentMatches, matchQueue,
                           rounds, currentRound, settings, nextPlayerId,
                           rentalTimer>>
            /\ saveToStorage
            /\ showToast(IF players[pi].isResting THEN "playerReady" ELSE "playerResting",
                         IF players[pi].isResting THEN "success" ELSE "info")

shuffleQueue ==
    IF Len(matchQueue) < 2
    THEN /\ showToast("needTwoQueued", "info")
         /\ UNCHANGED <<players, matchObjs, matches, currentMatches,
                        matchQueue, rounds, currentRound, settings, storage,
                        nextPlayerId, rentalTimer>>
    ELSE \E q \in shuffleArray(matchQueue) :
         /\ matchQueue' = q
         /\ UNCHANGED <<players, matchObjs, matches, currentMatches, rounds,
                        currentRound, settings, nextPlayerId, rentalTimer>>
         /\ saveToStorage
         /\ showToast("queueShuffled", "success")

-----------------------------------------------------------------------------
\* Import
\*
\* The text of the import field is "blank" (empty after trim), "unparsable"
\* (JSON.parse throws) or "json" with the value JSON.parse returns. A JSON
\* value is [type |-> "null"], [type |-> "number", value |-> n],
\* [type |-> "string", chars |-> s], [type |-> "array", items |-> seq] or
\* [type |-> "object", fields |-> f], f being a function from the keys
\* present to their values. The code validates the players field only: the
\* other fields of a snapshot are given as the values the state holds
\* (sequences of match objects, of rounds, a counter, a settings object).

\* !v of a JSON value
Falsy(v) ==
    \/ v.type = "null"
    \/ v.type = "number" /\ v.value = 0
    \/ v.type = "string" /\ v.chars = <<>>

\* parsed.players of the value JSON.parse returned: reading a property of
\* null throws, a number or a string has no such property (undefined, here
\* null), an object has it if the key is present
PlayersOf(parsed) ==
    IF parsed.type = "object" /\ "players" \in DOMAIN parsed.fields
    THEN parsed.fields.players
    ELSE [type |-> "null"]

\* the heap without the objects no collection refers to, the references
\* renumbered in the order of the heap
Compact(objs, ms, cur, q) ==
    LET live == Range(ms) \cup Range(cur) \cup Range(q)
        new(r) == Cardinality({x \in live : x <= r})
        old(k) == CHOOSE r \in live : new(r) = k
    IN [matchObjs |-> [k \in 1..Cardinality(live) |-> objs[old(k)]],
        matches |-> [i \in 1..Len(ms) |-> new(ms[i])],
        currentMatches |-> [i \in 1..Len(cur) |-> new(cur[i])],
        matchQueue |-> [i \in 1..Len(q) |-> new(q[i])]]

\* Object.assign(state, parsed) on the session's properties: every key
\* present in parsed replaces the property of state, the others stay. The
\* match objects of the three collections of parsed are new objects, each
\* held by one collection.
AssignSession(fields) ==
    LET has(k) == k \in DOMAIN fields
        newMs == IF has("matches") THEN fields.matches ELSE <<>>
        newCur == IF has("currentMatches") THEN fields.currentMatches ELSE <<>>
        newQ == IF has("matchQueue") THEN fields.matchQueue ELSE <<>>
        base == Len(matchObjs)
        heap == Compact(matchObjs \o newMs \o newCur \o newQ,
                    IF has("matches") THEN [i \in 1..Len(newMs) |-> base + i]
                    ELSE matches,
                    IF has("currentMatches")
                    THEN [i \in 1..Len(newCur) |-> base + Len(newMs) + i]
                    ELSE currentMatches,
                    IF has("matchQueue")
                    THEN [i \in 1..Len(newQ) |-> base + Len(newMs) + Len(newCur) + i]
                    ELSE matchQueue)
    IN /\ players' = IF has("players") THEN fields.players.items ELSE players
       /\ matchObjs' = heap.matchObjs
       /\ matches' = heap.matches
       /\ currentMatches' = heap.currentMatches
       /\ matchQueue' = heap.matchQueue
       /\ rounds' = IF has("rounds") THEN fields.rounds ELSE rounds
       /\ currentRound' = IF has("currentRound") THEN fields.currentRound
                          ELSE currentRound
       /\ settings' = IF has("settings") THEN fields.settings ELSE settings

\* Object.assign(state, parsed), the rental timer included
Assign(fields) ==
    /\ AssignSession(fields)
    /\ rentalTimer' = IF "rentalTimer" \in DOMAIN fields THEN fields.rentalTimer
                      ELSE rentalTimer

\* doImport that assigns the fields of the object the text holds before it
\* looks at the players field
doImport_assignFirst(data) ==
    IF data.kind = "blank"
    THEN showToast("enterData", "error") /\ Rejected
    ELSE IF data.kind = "unparsable" \/ data.value.type # "object"
    THEN showToast("invalidFormat", "error") /\ Rejected
    ELSE IF Falsy(PlayersOf(data.value)) \/ PlayersOf(data.value).type # "array"
    THEN /\ Assign([k \in DOMAIN data.value.fields \ {"players"}
                        |-> data.value.fields[k]])
         /\ UNCHANGED <<nextPlayerId, storage>>
         /\ showToast("invalidFormat", "error")
    ELSE /\ Assign(data.value.fields)
         /\ UNCHANGED nextPlayerId
         /\ saveToStorage
         /\ showToast("imported", "success")

\* data: the text of the import field
doImport(data) ==
    IF data.kind = "blank"
    THEN showToast("enterData", "error") /\ Rejected
    ELSE IF data.kind = "unparsable"
    THEN showToast("invalidFormat", "error") /\ Rejected
    ELSE IF data.value.type = "null"
            \/ Falsy(PlayersOf(data.value))
            \/ PlayersOf(data.value).type # "array"
    THEN showToast("invalidFormat", "error") /\ Rejected
    ELSE /\ Assign(data.value.fields)
         /\ UNCHANGED nextPlayerId
         /\ saveToStorage
         /\ showToast("imported", "success")

-----------------------------------------------------------------------------
\* Timers

\* what the timer handlers leave alone
SessionUnchanged ==
    UNCHANGED <<players, matchObjs, matches, currentMatches, matchQueue, rounds,
                currentRound, settings, nextPlayerId>>

\* the callback of the interval of startTimers: it writes the elapsed time
\* of every active match into its timer element of the page, and nothing else
matchTimerTick == UNCHANGED vars

\* the assignments of setRentalDuration (parseInt(minutes) || 120)
WithDuration(rt, minutes) ==
    LET duration == IF minutes = 0 THEN 120 ELSE minutes
    IN [rt EXCEPT !.duration = duration,
                  !.remainingSeconds = duration * 60,
                  !.alertsShown = NoAlerts]

\* minutes: the number of minutes chosen
setRentalDuration(minutes) ==
    /\ rentalTimer' = WithDuration(rentalTimer, minutes)
    /\ SessionUnchanged
    /\ UNCHANGED toast
    /\ saveToStorage

\* the seconds left until the end time as recalculateEndTimeRemaining and
\* setRentalEndTime compute them from the clock: any of these
ClockRemaining == {0, 300}

\* setRentalMode: the mode is set and the remaining time recomputed, from
\* the duration or from the end time
setRentalMode(mode) ==
    /\ IF mode = "duration"
       THEN rentalTimer' = WithDuration([rentalTimer EXCEPT !.mode = mode],
                                        rentalTimer.duration)
       ELSE \E diffSeconds \in ClockRemaining :
               rentalTimer' = [rentalTimer EXCEPT !.mode = mode,
                                                 !.remainingSeconds = diffSeconds,
                                                 !.duration = (diffSeconds + 59) \div 60,
                                                 !.alertsShown = NoAlerts]
    /\ SessionUnchanged
    /\ UNCHANGED toast
    /\ saveToStorage

\* the interval of the rental timer exists exactly while isRunning is true
startRentalTimer ==
    IF rentalTimer.isRunning THEN UNCHANGED vars
    ELSE /\ \E remaining \in (IF rentalTimer.mode = "endtime" THEN ClockRemaining
                                ELSE {rentalTimer.remainingSeconds}) :
               rentalTimer' = [rentalTimer EXCEPT !.remainingSeconds = remaining,
                                                 !.isRunning = TRUE]
         /\ SessionUnchanged
         /\ saveToStorage
         /\ showToast("rentalStarted", "success")

pauseRentalTimer ==
    IF ~rentalTimer.isRunning THEN UNCHANGED vars
    ELSE /\ rentalTimer' = [rentalTimer EXCEPT !.isRunning = FALSE]
         /\ SessionUnchanged
         /\ saveToStorage
         /\ showToast("rentalPaused", "info")

\* checkRentalTimeAlerts: the alert due at this remaining time
AlertAt(remaining) ==
    CASE remaining = 900 -> "min15"
      [] remaining = 600 -> "min10"
      [] remaining = 300 -> "min5"
      [] OTHER -> "none"

\* the callback of the rental interval once remainingSeconds is updated,
\* with an expiry that also completes the active matches
TickTo_endsMatches(remaining) ==
    IF remaining > 0
    THEN LET key == AlertAt(remaining)
             fires == key # "none" /\ ~rentalTimer.alertsShown[key]
         IN /\ rentalTimer' =
                  [rentalTimer EXCEPT !.remainingSeconds = remaining,
                                      !.alertsShown = IF fires THEN [@ EXCEPT ![key] = TRUE]
                                                      ELSE @]
            /\ IF fires THEN showToast(key, IF key = "min5" THEN "error" ELSE "warning")
               ELSE UNCHANGED toast
            /\ SessionUnchanged
            /\ IF remaining % 30 = 0 THEN saveToStorage ELSE UNCHANGED storage
    ELSE LET st == CompleteAll(currentMatches,
                       [players |-> players, matchObjs |-> matchObjs])
         IN /\ rentalTimer' = [rentalTimer EXCEPT !.remainingSeconds = remaining,
                                                  !.isRunning = FALSE]
            /\ players' = st.players
            /\ matchObjs' = st.matchObjs
            /\ currentMatches' = <<>>
            /\ UNCHANGED <<matches, matchQueue, rounds, currentRound, settings,
                           nextPlayerId, storage>>
            /\ showToast("rentalExpired", "error")

\* the callback of the rental interval once remainingSeconds is updated:
\* display and alerts and a save every 30 seconds while time is left,
\* stopRentalTimer and onRentalTimeExpired when none is
TickTo(remaining) ==
    IF remaining > 0
    THEN LET key == AlertAt(remaining)
             fires == key # "none" /\ ~rentalTimer.alertsShown[key]
         IN /\ rentalTimer' =
                  [rentalTimer EXCEPT !.remainingSeconds = remaining,
                                      !.alertsShown = IF fires THEN [@ EXCEPT ![key] = TRUE]
                                                      ELSE @]
            /\ IF fires THEN showToast(key, IF key = "min5" THEN "error" ELSE "warning")
               ELSE UNCHANGED toast
            /\ SessionUnchanged
            /\ IF remaining % 30 = 0 THEN saveToStorage ELSE UNCHANGED storage
    ELSE /\ rentalTimer' = [rentalTimer EXCEPT !.remainingSeconds = remaining,
                                               !.isRunning = FALSE]
         /\ SessionUnchanged
         /\ UNCHANGED storage
         /\ showToast("rentalExpired", "error")

\* the callback of the interval of startRentalTimer
rentalTick ==
    /\ rentalTimer.isRunning
    /\ \E remaining \in (IF rentalTimer.mode = "endtime" THEN ClockRemaining
                           ELSE {rentalTimer.remainingSeconds - 1}) :
          TickTo(remaining)

-----------------------------------------------------------------------------
\* Reset and page load

\* resetAll that removes the stored item and does not save the fresh state
resetAll_noResave(confirmed) ==
    IF ~confirmed THEN UNCHANGED vars
    ELSE /\ players' = <<>>
         /\ matchObjs' = <<>>
         /\ matches' = <<>>
         /\ currentMatches' = <<>>
         /\ matchQueue' = <<>>
         /\ rounds' = <<>>
         /\ currentRound' = 0
         /\ settings' = DefaultSettings
         /\ rentalTimer' = DefaultRentalTimer
         /\ UNCHANGED nextPlayerId
         /\ storage' = <<>>
         /\ showToast("allCleared", "info")

\* confirmed: the answer to confirm(). The interval of the rental timer is
\* cleared, every property of state is set to its initial value, the stored
\* item is removed and the fresh state saved.
resetAll(confirmed) ==
    IF ~confirmed THEN UNCHANGED vars
    ELSE /\ players' = <<>>
         /\ matchObjs' = <<>>
         /\ matches' = <<>>
         /\ currentMatches' = <<>>
         /\ matchQueue' = <<>>
         /\ rounds' = <<>>
         /\ currentRound' = 0
         /\ settings' = DefaultSettings
         /\ rentalTimer' = DefaultRentalTimer
         /\ UNCHANGED nextPlayerId
         /\ saveToStorage
         /\ showToast("allCleared", "info")

\* initRentalTimer on the rental timer the page has loaded: setRentalMode
\* recomputes the remaining time, an idle end-time timer is recomputed from
\* the clock, a timer that was running is started again; the possible results
initRentalTimer(rt) ==
    LET modeSet == IF rt.mode = "duration"
                   THEN {WithDuration(rt, rt.duration)}
                   ELSE {[rt EXCEPT !.remainingSeconds = d,
                                    !.duration = (d + 59) \div 60,
                                    !.alertsShown = NoAlerts] : d \in ClockRemaining}
        clock(r) == IF r.mode = "endtime" THEN ClockRemaining
                    ELSE {r.remainingSeconds}
    IN UNION {{[r EXCEPT !.remainingSeconds = d] : d \in clock(r)} : r \in modeSet}

\* the page is loaded again: the script declares state anew, the
\* DOMContentLoaded handler calls loadFromStorage, which assigns the parsed
\* snapshot if there is one, and initRentalTimer follows and saves
loadFromStorage ==
    LET saved == IF storage = <<>>
                 THEN [rentalTimer |-> DefaultRentalTimer]
                 ELSE [storage[1] EXCEPT !.players = [type |-> "array", items |-> @]]
    IN /\ IF storage = <<>>
          THEN /\ players' = <<>>
               /\ matchObjs' = <<>>
               /\ matches' = <<>>
               /\ currentMatches' = <<>>
               /\ matchQueue' = <<>>
               /\ rounds' = <<>>
               /\ currentRound' = 0
               /\ settings' = DefaultSettings
          ELSE AssignSession(saved)
       /\ rentalTimer' \in initRentalTimer(saved.rentalTimer)
       /\ UNCHANGED nextPlayerId
       /\ saveToStorage
       /\ IF saved.rentalTimer.isRunning THEN showToast("rentalStarted", "success")
          ELSE toast' = NoToast

-----------------------------------------------------------------------------
\* The session: any handler, on any input of the model's input sets

PlayerIds == 1..MaxPlayers

MatchIds == 1..MaxQueued

\* the level given to addPlayer in the session specifications; the pairing
\* by level is the subject of SpecGen and SpecLevel
SessionLevels == {"intermediate"}

\* the score sheets entered in the session specifications: team1 wins,
\* team2 wins, a draw; SpecScore tries every sheet over ScoreVals
SessionSheets == {<<21, 18, 21, 19, 21, 15>>, <<19, 21, 15, 21, 18, 21>>,
                  <<21, 19, 15, 19, 21, 15>>}

\* the handlers that change settings, within the model's court bound
SettingsNext ==
    \/ \E type \in MatchTypes : setMatchType(type)
    \/ \E on \in BOOLEAN : saveSetting("multiCourt", on)
    \/ \E delta \in {-1, 1} : adjustCourts(delta) /\ settings'.courtCount <= MaxCourts

AddNext ==
    \E level \in SessionLevels :
        nextPlayerId <= MaxPlayers /\ addPlayer(PlayerName(nextPlayerId), level)

\* generateRound while the model has room for the round and its matches
RoundNext(maxRounds, maxMatches) ==
    generateRound /\ Len(rounds') <= maxRounds /\ Len(matchObjs') <= maxMatches

Next ==
    \/ SettingsNext
    \/ AddNext
    \/ \E id \in PlayerIds, confirmed \in BOOLEAN : removePlayer(id, confirmed)
    \/ \E id \in PlayerIds : togglePlayerRest(id)
    \/ RoundNext(MaxRounds, MaxMatches)
    \/ startNextMatch
    \/ completeCurrentMatches
    \/ \E matchId \in MatchIds : completeMatch(matchId)
    \/ \E matchId \in MatchIds, scores \in SessionSheets : saveScore(matchId, scores)
    \/ shuffleQueue

Spec == Init /\ [][Next]_vars

\* The dispatch cycle alone: rounds are generated, dispatched and completed
\* under rest toggles and settings changes, with room for more matches
NextDispatch ==
    \/ SettingsNext
    \/ AddNext
    \/ \E id \in PlayerIds : togglePlayerRest(id)
    \/ RoundNext(MaxQueued, MaxQueued)
    \/ startNextMatch
    \/ completeCurrentMatches
    \/ \E matchId \in MatchIds : completeMatch(matchId)

SpecDispatch == Init /\ [][NextDispatch]_vars

-----------------------------------------------------------------------------
\* The pairing engine on its own: generateRound applied once to a roster
\* drawn from bounded sets. Such a session is what doImport leaves when the
\* imported snapshot holds a roster only (Object.assign overwrites
\* state.players and keeps the rest), followed by the settings handlers.

PoolPlayer(id, level, matchCount, isResting) ==
    [id |-> id, name |-> PlayerName(id), level |-> level,
     matchCount |-> matchCount, isPlaying |-> FALSE, isResting |-> isResting,
     wins |-> Undefined, losses |-> Undefined]

InitPool(levels, counts, rests, modes) ==
    /\ \E n \in 0..MaxPool :
         \E attr \in [1..n -> levels \X counts \X rests] :
            /\ players = [i \in 1..n |-> PoolPlayer(i, attr[i][1], attr[i][2], attr[i][3])]
            /\ nextPlayerId = n + 1
    /\ settings \in [matchType : MatchTypes, pairingMode : modes,
                     courtCount : 1..MaxCourts, multiCourt : {FALSE}]
    /\ matchObjs = <<>>
    /\ matches = <<>>
    /\ currentMatches = <<>>
    /\ matchQueue = <<>>
    /\ rounds = <<>>
    /\ currentRound = 0
    /\ rentalTimer = DefaultRentalTimer
    /\ storage = <<Serialize(players, matchObjs, matches, currentMatches,
                             matchQueue, rounds, currentRound, settings,
                             rentalTimer)>>
    /\ toast = NoToast

\* the match counts of the rosters of SpecGen
GenCounts == {0, 3}

\* the levels of the rosters of SpecGen
GenLevels == {"beginner", "pro"}

InitGen == InitPool(GenLevels, GenCounts, BOOLEAN, PairingModes)

\* one round is generated
NextGen == generateRound /\ Len(rounds') <= 1

\* every pairing mode on rosters that differ in match count and rest flag
SpecGen == InitGen /\ [][NextGen]_vars

InitLevel == InitPool(Levels, {0}, {FALSE}, {"balanced", "separate"})

\* the level-driven modes on rosters of every level, all match counts equal
SpecLevel == InitLevel /\ [][NextGen]_vars

-----------------------------------------------------------------------------
\* Score entry on its own: one match is playing on court 1, one more player
\* is idle, and a score sheet is saved. The statistics the players start
\* with are those of an earlier draw or of no scored match at all.

\* the per-set scores tried
ScoreVals == {15, 18, 19, 21}

ScoreSheets == [1..6 -> ScoreVals]

InitScore ==
    /\ \E type \in MatchTypes, scored \in BOOLEAN :
         LET n == IF type = "doubles" THEN 4 ELSE 2
             stat == IF scored THEN 0 ELSE Undefined
         IN /\ players = [i \in 1..(n + 1) |->
                             [id |-> i, name |-> PlayerName(i),
                              level |-> "intermediate",
                              matchCount |-> IF i <= n THEN 1 ELSE 0,
                              isPlaying |-> i <= n, isResting |-> FALSE,
                              wins |-> stat, losses |-> stat]]
            /\ nextPlayerId = n + 2
            /\ settings = [DefaultSettings EXCEPT !.matchType = type]
            /\ matchObjs = <<[id |-> 1, type |-> type,
                              team1 |-> [i \in 1..(n \div 2) |-> i],
                              team2 |-> [i \in 1..(n \div 2) |-> (n \div 2) + i],
                              status |-> "playing", court |-> 1, roundId |-> 1,
                              roundNumber |-> 1, winner |-> "none",
                              scores |-> <<>>]>>
    /\ matches = <<1>>
    /\ currentMatches = <<1>>
    /\ matchQueue = <<>>
    /\ rounds = <<[id |-> 1, roundNumber |-> 1, matches |-> <<1>>]>>
    /\ currentRound = 1
    /\ rentalTimer = DefaultRentalTimer
    /\ storage = <<Serialize(players, matchObjs, matches, currentMatches,
                             matchQueue, rounds, currentRound, settings,
                             rentalTimer)>>
    /\ toast = NoToast

\* the score sheet of the round-trip example: 21-19, 18-21, 21-15
ExampleSheet == <<21, 18, 21, 19, 21, 15>>

\* every sheet for a match that is playing; one sheet for any match id
NextScore ==
    \/ \E i \in 1..Len(currentMatches) :
          \E scores \in ScoreSheets : saveScore(matchObjs[currentMatches[i]].id, scores)
    \/ \E matchId \in MatchIds : saveScore(matchId, ExampleSheet)

SpecScore == InitScore /\ [][NextScore]_vars

-----------------------------------------------------------------------------
\* The roster on its own: players are added one by one and in bulk, renamed
\* and removed, under names that differ in case and in surrounding spaces.

\* the texts typed into a name field: "", " ", "a", "A", " a", "a ", "b", "B"
TypedNames ==
    {<<>>, <<Space>>, <<97>>, <<65>>, <<Space, 97>>, <<97, Space>>, <<98>>, <<66>>}

\* the texts typed into the bulk textarea: "", " \n", "a", "a\nA", "b\n a",
\* "A\nb"
BulkTexts ==
    {<<>>, <<Space, LineFeed>>, <<97>>, <<97, LineFeed, 65>>,
     <<98, LineFeed, Space, 97>>, <<65, LineFeed, 98>>}

\* the levels selected in the edit modal
EditLevels == {"intermediate", "pro"}

NextRoster ==
    \/ \E typed \in TypedNames, level \in SessionLevels :
          addPlayer(typed, level) /\ nextPlayerId' <= MaxPlayers + 1
    \/ \E text \in BulkTexts, level \in SessionLevels :
          bulkAddPlayers(text, level) /\ nextPlayerId' <= MaxPlayers + 1
    \/ \E id \in PlayerIds, answer \in TypedNames : editPlayer(id, answer)
    \/ \E id \in PlayerIds, typed \in TypedNames, newLevel \in EditLevels :
          saveEditPlayer(id, typed, newLevel)
    \/ \E id \in PlayerIds, confirmed \in BOOLEAN : removePlayer(id, confirmed)

SpecRoster == Init /\ [][NextRoster]_vars

-----------------------------------------------------------------------------
\* Import into a running session: players are added, a round is generated,
\* dispatched and completed, and at any point a text is imported. The
\* snapshots come from another session, whose ids (11, 12, ...) are not
\* those of this one.

\* the i-th player of the other session
OtherPlayer(i, isPlaying) ==
    [id |-> 10 + i, name |-> PlayerName(i), level |-> "advanced",
     matchCount |-> IF isPlaying THEN 1 ELSE 0, isPlaying |-> isPlaying,
     isResting |-> FALSE, wins |-> Undefined, losses |-> Undefined]

\* the singles match of the other session, as it is when playing on court 1
OtherMatch ==
    [id |-> 11, type |-> "singles", team1 |-> <<11>>, team2 |-> <<12>>,
     status |-> "playing", court |-> 1, roundId |-> 1, roundNumber |-> 1,
     winner |-> "none", scores |-> <<>>]

JsonObject(fields) == [type |-> "object", fields |-> fields]

JsonArray(items) == [type |-> "array", items |-> items]

\* a full snapshot of the other session while its match is playing
FullSnapshot ==
    JsonObject(
       [players |-> JsonArray(<<OtherPlayer(1, TRUE), OtherPlayer(2, TRUE)>>),
        matches |-> <<OtherMatch>>,
        currentMatches |-> <<OtherMatch>>,
        matchQueue |-> <<>>,
        rounds |-> <<[id |-> 1, roundNumber |-> 1, matches |-> <<11>>]>>,
        settings |-> [DefaultSettings EXCEPT !.matchType = "singles"],
        currentRound |-> 1])

\* the texts brought to the import field
ImportTexts ==
    {[kind |-> "blank"],
     [kind |-> "unparsable"],
     [kind |-> "json", value |-> [type |-> "null"]],
     [kind |-> "json", value |-> [type |-> "number", value |-> 5]],
     [kind |-> "json", value |-> JsonObject([matches |-> <<>>, matchQueue |-> <<>>])],
     [kind |-> "json", value |-> JsonObject([players |-> [type |-> "null"], rounds |-> <<>>])],
     [kind |-> "json", value |-> JsonObject([players |-> [type |-> "string", chars |-> <<97>>]])],
     [kind |-> "json", value |-> JsonObject([players |-> JsonObject([id |-> 11]),
                                             currentRound |-> 0])],
     [kind |-> "json", value |-> JsonObject([players |-> JsonArray(<<>>)])],
     [kind |-> "json", value |-> JsonObject([players |-> JsonArray(<<OtherPlayer(1, FALSE)>>)])],
     [kind |-> "json", value |-> FullSnapshot]}

NextImport ==
    \/ \E type \in MatchTypes : setMatchType(type)
    \/ AddNext
    \/ RoundNext(1, 1)
    \/ startNextMatch
    \/ completeCurrentMatches
    \/ \E data \in ImportTexts : doImport(data)

SpecImport == Init /\ [][NextImport]_vars

-----------------------------------------------------------------------------
\* The timers under a running session: a round is generated, dispatched and
\* completed while the match timer and the rental timer tick.

\* the rental durations chosen, in minutes; the countdown is followed for
\* these (not for the 120 minutes of the default), and not below zero, where
\* a timer started again after its expiry would go on counting
RentalMinutes == {1}

NextTimer ==
    \/ AddNext
    \/ setMatchType("singles")
    \/ RoundNext(1, 1)
    \/ startNextMatch
    \/ completeCurrentMatches
    \/ \E minutes \in RentalMinutes : setRentalDuration(minutes)
    \/ \E mode \in {"duration", "endtime"} : setRentalMode(mode)
    \/ startRentalTimer
    \/ pauseRentalTimer
    \/ matchTimerTick
    \/ /\ rentalTick
       /\ rentalTimer.mode = "endtime" \/ rentalTimer.duration \in RentalMinutes
       /\ rentalTimer.remainingSeconds >= 0

SpecTimer == Init /\ [][NextTimer]_vars

-----------------------------------------------------------------------------
\* The session and its stored snapshot: every kind of handler that changes
\* the session, the import of the other session's snapshot, the reset and
\* the page being loaded again.

\* the ids of the matches of this session and of the imported one
StoredMatchIds == 1..MaxMatches \cup {OtherMatch.id}

NextPersist ==
    \/ \E type \in MatchTypes : setMatchType(type)
    \/ AddNext
    \/ \E id \in PlayerIds : removePlayer(id, TRUE)
    \/ \E id \in PlayerIds : editPlayer(id, <<66>>)
    \/ \E id \in PlayerIds : togglePlayerRest(id)
    \/ RoundNext(MaxRounds, MaxMatches)
    \/ startNextMatch
    \/ completeCurrentMatches
    \/ \E matchId \in StoredMatchIds : completeMatch(matchId)
    \/ \E matchId \in StoredMatchIds : saveScore(matchId, ExampleSheet)
    \/ shuffleQueue
    \/ doImport([kind |-> "json", value |-> FullSnapshot])
    \/ \E confirmed \in BOOLEAN : resetAll(confirmed)
    \/ loadFromStorage

SpecPersist == Init /\ [][NextPersist]_vars

-----------------------------------------------------------------------------
\* Dispatch on a roster of up to MaxPool players, some of them resting:
\* rounds of up to two matches are queued, dispatched and completed, so that
\* an entry of the queue can wait behind one whose players are busy.

InitStart == InitPool(SessionLevels, {0}, BOOLEAN, {"balanced"})

NextStart ==
    \/ \E on \in BOOLEAN : saveSetting("multiCourt", on)
    \/ RoundNext(MaxRounds, MaxPool)
    \/ startNextMatch
    \/ \E matchId \in 1..MaxPool : completeMatch(matchId)
    \/ \E id \in 1..MaxPool : removePlayer(id, TRUE)

SpecStart == InitStart /\ [][NextStart]_vars

-----------------------------------------------------------------------------
\* Ids that are looked up: players are added, rested and removed while
\* singles matches are generated, dispatched (with multi-court too),
\* completed and scored, each handler being called on the ids of players and
\* matches that exist and on ids that do not.

NextLookup ==
    \/ setMatchType("singles")
    \/ \E on \in BOOLEAN : saveSetting("multiCourt", on)
    \/ AddNext
    \/ \E id \in PlayerIds, confirmed \in BOOLEAN : removePlayer(id, confirmed)
    \/ \E id \in PlayerIds : togglePlayerRest(id)
    \/ RoundNext(MaxRounds, MaxMatches)
    \/ startNextMatch
    \/ \E matchId \in MatchIds : completeMatch(matchId)
    \/ \E matchId \in MatchIds : saveScore(matchId, ExampleSheet)

SpecLookup == Init /\ [][NextLookup]_vars

-----------------------------------------------------------------------------
\* The queue reordered: rounds are queued on a roster of up to MaxPool
\* players, dispatched and completed, and the queue is shuffled at any point.

NextQueue ==
    \/ RoundNext(MaxRounds, MaxPool)
    \/ startNextMatch
    \/ \E matchId \in 1..MaxPool : completeMatch(matchId)
    \/ shuffleQueue

SpecQueue == InitStart /\ [][NextQueue]_vars

-----------------------------------------------------------------------------
\* The session with multi-court never enabled: every handler of Spec but
\* the multi-court switch, and the page loaded again from the store.

NextExclusive ==
    \/ \E type \in MatchTypes : setMatchType(type)
    \/ \E delta \in {-1, 1} : adjustCourts(delta) /\ settings'.courtCount <= MaxCourts
    \/ AddNext
    \/ \E id \in PlayerIds, confirmed \in BOOLEAN : removePlayer(id, confirmed)
    \/ \E id \in PlayerIds : togglePlayerRest(id)
    \/ RoundNext(MaxRounds, MaxMatches)
    \/ startNextMatch
    \/ completeCurrentMatches
    \/ \E matchId \in MatchIds : completeMatch(matchId)
    \/ \E matchId \in MatchIds : saveScore(matchId, ExampleSheet)
    \/ shuffleQueue
    \/ loadFromStorage

SpecExclusive == Init /\ [][NextExclusive]_vars

-----------------------------------------------------------------------------
\* Dispatch kept going: on a roster of up to MaxPool players, multi-court
\* disabled, rounds are queued while the model has room for them, and
\* startNextMatch and the completion handlers keep being invoked. A call
\* that changes nothing is a stuttering step, so weak fairness asks for a
\* call only while it would change the state.

LiveCompletion ==
    \/ completeCurrentMatches
    \/ \E matchId \in 1..MaxPool : completeMatch(matchId)

NextLive ==
    \/ RoundNext(MaxRounds, MaxPool)
    \/ startNextMatch
    \/ LiveCompletion

SpecLive ==
    /\ InitStart
    /\ [][NextLive]_vars
    /\ WF_vars(startNextMatch)
    /\ WF_vars(LiveCompletion)

-----------------------------------------------------------------------------
\* Vocabulary of the properties

Members(m) == Range(m.team1 \o m.team2)

\* the match objects of the active set
Active == Deref(matchObjs, currentMatches)

\* no player id is a member of two different entries of the active set
NoSharedActive ==
    \A i, j \in 1..Len(currentMatches) :
        i # j => Members(Active[i]) \cap Members(Active[j]) = {}

\* not busy and not resting
Eligible(p) == ~p.isPlaying /\ ~p.isResting

EligiblePlayers == SelectSeq(players, Eligible)

\* the roster players whose id is pid
Holders(ps, pid) == {i \in 1..Len(ps) : ps[i].id = pid}

\* the level weight of the roster player pid
WeightOf(pid) == LEVEL_WEIGHTS[players[CHOOSE i \in Holders(players, pid) : TRUE].level]

\* the match objects created so far, in creation order
Created == matchObjs

\* the member ids of the matches created so far
Placed == UNION {Members(Created[k]) : k \in 1..Len(Created)}

-----------------------------------------------------------------------------
\* C1: immediately after a startNext call made while multi-court mode is
\* disabled, no player id is a member of two different matches of the
\* active set. Stated for the calls that dispatch at least one match.
C1_StartNextExclusive ==
    [][(startNextMatch /\ ~settings.multiCourt /\ toast'.msg = "matchesStarted")
          => NoSharedActive']_vars

\* the two weights of a doubles team, larger first
TeamWeights(team) ==
    IF WeightOf(team[1]) >= WeightOf(team[2])
    THEN <<WeightOf(team[1]), WeightOf(team[2])>>
    ELSE <<WeightOf(team[2]), WeightOf(team[1])>>

\* C2: in balanced mode for doubles the first group of 4 of the skill-sorted
\* eligible pool is split into team [strongest, weakest] versus team
\* [2nd-strongest, 2nd-weakest]: with equal match counts the first match of
\* the round has one team of each of these weight pairs, whichever is
\* called team1 (weights 4,3,2,1 give [4,1] vs [3,2]).
C2_BalancedDoublesTeams ==
    (/\ settings.pairingMode = "balanced"
     /\ settings.matchType = "doubles"
     /\ Len(Created) > 0)
    => LET pool == EligiblePlayers
           w == StableSortBy(Weights(pool), [i \in 1..Len(pool) |-> 0 - Weights(pool)[i]])
           n == Len(w)
           m == Created[1]
       IN /\ Len(m.team1) = 2 /\ Len(m.team2) = 2
          /\ {TeamWeights(m.team1), TeamWeights(m.team2)} = {<<w[1], w[n]>>, <<w[2], w[n - 1]>>}

\* C3: generateRound called when fewer than playersPerMatch players are
\* eligible (neither busy nor resting) fails with the insufficient-players
\* error and changes no state.
C3_InsufficientRejected ==
    [][(generateRound /\ Len(EligiblePlayers) < PlayersNeeded)
          => (/\ toast' = [type |-> "error", msg |-> "needMorePlayers"]
              /\ UNCHANGED <<stateVars, storage>>)]_vars

\* C4: every match emitted by generateRound has exactly 2 players per team
\* when its type is doubles and exactly 1 when it is singles, and its two
\* teams share no player id.
C4_TeamSizes ==
    \A k \in 1..Len(Created) :
        LET m == Created[k]
            size == IF m.type = "doubles" THEN 2 ELSE 1
        IN /\ Len(m.team1) = size
           /\ Len(m.team2) = size
           /\ Range(m.team1) \cap Range(m.team2) = {}

C4_Witness ==
    /\ \E k \in 1..Len(Created) : Created[k].type = "doubles"
    /\ Len(Created) = 1
    /\ toast.msg = "roundCreated"

\* C5: the number of matches a generateRound call emits is at most the
\* configured court count and at most floor(E / playersPerMatch), E being
\* the number of eligible players at the time of the call.
C5_RoundSize ==
    [][generateRound
          => (/\ Len(matchObjs') - Len(matchObjs) <= settings.courtCount
              /\ Len(matchObjs') - Len(matchObjs)
                    <= Len(EligiblePlayers) \div PlayersNeeded)]_vars

C5_Witness ==
    /\ toast.msg = "roundCreated"
    /\ Len(Created) = 1
    /\ settings.courtCount = 2
    /\ settings.matchType = "singles"
    /\ Len(EligiblePlayers) = 3
    /\ Len(players) = 4

Completed == Range(currentMatches) \ Range(currentMatches')

\* C7: after a match is completed, every member of it who is in the roster
\* has isPlaying = false and is eligible (not busy, not resting).
C7_MembersEligible ==
    [][\A r \in Completed :
          \A pid \in Members(matchObjs'[r]) :
             \A i \in Holders(players', pid) :
                ~players'[i].isPlaying /\ Eligible(players'[i])]_vars

\* a queued match the claim calls eligible for dispatch: every member is in
\* the roster and is not busy, or busy with multi-court enabled
QueuedEligible(m) ==
    \A pid \in Members(m) :
        /\ Holders(players, pid) # {}
        /\ \A i \in Holders(players, pid) : ~players[i].isPlaying \/ settings.multiCourt

\* the cases in which startNext starts nothing
StartsNothing ==
    \/ Len(matchQueue) = 0
    \/ \A c \in 1..settings.courtCount : \E r \in Range(currentMatches) : matchObjs[r].court = c
    \/ \A r \in Range(matchQueue) : ~QueuedEligible(matchObjs[r])

\* C8: startNext changes no state whenever it starts zero matches (queue
\* empty, every court occupied, or no queued match eligible), and the state
\* it leaves is again one in which it starts nothing.
C8_RefusalChangesNothing ==
    [][(startNextMatch /\ (StartsNothing \/ toast'.msg # "matchesStarted"))
          => (/\ UNCHANGED <<stateVars, storage>>
              /\ toast'.type \in {"info", "error"}
              /\ StartsNothing')]_vars

C8_Witness ==
    /\ toast.msg = "cannotStart"
    /\ Len(matchQueue) > 0
    /\ Len(currentMatches) = 1
    /\ settings.courtCount = 2

\* the sets a team wins on a score sheet: its score is strictly greater
SetsWon(scores, team) ==
    Cardinality({k \in 1..3 : IF team = 1 THEN scores[k] > scores[k + 3]
                                         ELSE scores[k + 3] > scores[k]})

\* C9: the winner saveScore records is team1 if team1 has more set-wins,
\* team2 if team2 has more, and draw when the set-win counts are equal.
C9_WinnerBySets ==
    \A k \in 1..Len(Created) :
        LET m == Created[k]
        IN m.scores # <<>> =>
             m.winner = (IF SetsWon(m.scores, 1) > SetsWon(m.scores, 2) THEN "team1"
                         ELSE IF SetsWon(m.scores, 2) > SetsWon(m.scores, 1) THEN "team2"
                         ELSE "draw")

C9_Witness ==
    \E k \in 1..Len(Created) :
        Created[k].scores = ExampleSheet /\ Created[k].winner = "team1"

\* an absent counter counts as 0
Num(x) == IF x = Undefined THEN 0 ELSE x

\* C10: when saveScore completes a match, each roster member of the winning
\* team has wins + 1 and losses unchanged, each roster member of the other
\* team has losses + 1 and wins unchanged, a draw changes no member's wins
\* or losses, and players outside the match are unchanged.
C10_StatsUpdate ==
    [][\A r \in Completed :
          LET m == matchObjs'[r]
              winners == IF m.winner = "team1" THEN Range(m.team1)
                         ELSE IF m.winner = "team2" THEN Range(m.team2) ELSE {}
              losers == IF m.winner = "team1" THEN Range(m.team2)
                        ELSE IF m.winner = "team2" THEN Range(m.team1) ELSE {}
          IN m.scores # <<>> =>
               /\ Len(players') = Len(players)
               /\ \A i \in 1..Len(players) :
                     /\ players'[i].id = players[i].id
                     /\ Num(players'[i].wins) = Num(players[i].wins)
                            + (IF players[i].id \in winners THEN 1 ELSE 0)
                     /\ Num(players'[i].losses) = Num(players[i].losses)
                            + (IF players[i].id \in losers THEN 1 ELSE 0)
                     /\ players[i].id \notin Members(m) => players'[i] = players[i]]_vars

C10_Witness ==
    /\ Len(Created) = 1
    /\ Created[1].winner = "team2"
    /\ Created[1].type = "doubles"
    /\ toast.msg = "scoreSaved"
    /\ \E i \in 1..Len(players) : players[i].losses = 1 /\ players[i].wins = 0

\* the roster player removePlayer(id) finds is busy
Busy(id) ==
    FindPlayer(players, id) # 0 /\ players[FindPlayer(players, id)].isPlaying

\* C11: removePlayer on a player whose isPlaying flag is true fails with an
\* error and leaves the roster and all other state unchanged.
C11_RemoveBusyRejected ==
    [][\A id \in PlayerIds, confirmed \in BOOLEAN :
          (removePlayer(id, confirmed) /\ Busy(id))
          => (/\ toast' = [type |-> "error", msg |-> "cannotRemovePlaying"]
              /\ UNCHANGED <<stateVars, storage, nextPlayerId>>)]_vars

C11_Witness ==
    /\ toast.msg = "cannotRemovePlaying"
    /\ \E i \in 1..Len(players) : players[i].isPlaying
    /\ Len(currentMatches) > 0

\* the ids of the members of the matches of the active set
ActiveMembers == UNION {Members(Active[i]) : i \in 1..Len(Active)}

\* C12: in every reachable state, multi-court mode included, removePlayer
\* leaves the roster unchanged for any player who is a member of a match of
\* the active set.
C12_RemoveActiveRefused ==
    [][\A id \in PlayerIds, confirmed \in BOOLEAN :
          (removePlayer(id, confirmed) /\ id \in ActiveMembers)
          => players' = players]_vars

\* C13: in every reachable state no player has isPlaying and isResting both
\* true.
C13_BusyXorResting ==
    \A i \in 1..Len(players) : ~(players[i].isPlaying /\ players[i].isResting)

\* a step of one of the three handlers that complete a match
CompletionStep ==
    \/ completeCurrentMatches
    \/ \E matchId \in MatchIds : completeMatch(matchId)
    \/ \E matchId \in MatchIds, scores \in SessionSheets : saveScore(matchId, scores)

\* C14: a match object changes status from pending to playing only, and by
\* startNext only; from playing to completed only, and by completeMatch,
\* completeCurrentMatches or saveScore only; once completed, its status,
\* court and winner never change again.
C14_Lifecycle ==
    [][\A r \in 1..Len(matchObjs) :
          /\ r <= Len(matchObjs')
          /\ matchObjs[r].status # matchObjs'[r].status
                => \/ /\ matchObjs[r].status = "pending"
                      /\ matchObjs'[r].status = "playing"
                      /\ startNextMatch
                   \/ /\ matchObjs[r].status = "playing"
                      /\ matchObjs'[r].status = "completed"
                      /\ CompletionStep
          /\ matchObjs[r].status = "completed"
                => /\ matchObjs'[r].status = "completed"
                   /\ matchObjs'[r].court = matchObjs[r].court
                   /\ matchObjs'[r].winner = matchObjs[r].winner]_vars

\* a scored match stays as it was while the next one plays on its court
C14_Witness ==
    \E r, q \in 1..Len(matchObjs) :
        /\ matchObjs[r].status = "completed" /\ matchObjs[r].winner = "team2"
        /\ matchObjs[q].status = "playing"
        /\ matchObjs[q].court = matchObjs[r].court
        /\ matchObjs[q].court # NoCourt

\* C19: starting from an empty session the rounds in history are numbered
\* 1, 2, ..., n in creation order, the round counter equals the number of
\* rounds in history, and a failed generateRound leaves the counter
\* unchanged.
C19_RoundNumbering ==
    /\ [](/\ currentRound = Len(rounds)
          /\ \A k \in 1..Len(rounds) : rounds[k].roundNumber = k)
    /\ [][(generateRound /\ toast'.msg = "needMorePlayers")
            => (currentRound' = currentRound /\ rounds' = rounds)]_vars

C19_Witness ==
    /\ Len(rounds) = 2
    /\ rounds[2].roundNumber = 2
    /\ toast.msg = "needMorePlayers"

\* a text of spaces only
Blank(text) == \A i \in 1..Len(text) : text[i] = Space

\* two names that are equal ignoring case: letter by letter the same code
\* unit, or an upper-case letter and its lower-case letter
SameName(a, b) ==
    /\ Len(a) = Len(b)
    /\ \A i \in 1..Len(a) :
          \/ a[i] = b[i]
          \/ a[i] \in 65..90 /\ b[i] = a[i] + 32
          \/ b[i] \in 65..90 /\ a[i] = b[i] + 32

\* name is text without the spaces around it
Stripped(text, name) ==
    /\ name # <<>>
    /\ name[1] # Space
    /\ name[Len(name)] # Space
    /\ \E lead, trail \in 0..Len(text) :
          text = [i \in 1..lead |-> Space] \o name \o [i \in 1..trail |-> Space]

\* C15: addPlayer with an empty (after trimming) name, or with a name equal
\* ignoring case to that of a roster player, is rejected with an error and
\* the roster is unchanged; otherwise exactly one player is appended, with
\* the trimmed name, matchCount 0 and isPlaying false.
C15_AddPlayer ==
    [][\A typed \in TypedNames, level \in SessionLevels :
          addPlayer(typed, level)
          => IF \/ Blank(typed)
                \/ \E i \in 1..Len(players), name \in TypedNames :
                      Stripped(typed, name) /\ SameName(players[i].name, name)
             THEN /\ toast'.type = "error"
                  /\ UNCHANGED <<stateVars, storage, nextPlayerId>>
             ELSE /\ Len(players') = Len(players) + 1
                  /\ SubSeq(players', 1, Len(players)) = players
                  /\ Stripped(typed, players'[Len(players')].name)
                  /\ players'[Len(players')].level = level
                  /\ players'[Len(players')].matchCount = 0
                  /\ ~players'[Len(players')].isPlaying]_vars

\* "A" (or "a") was typed with "a" (or "A") in the roster
C15_Witness ==
    /\ toast.msg = "nameTaken"
    /\ Len(players) = 2
    /\ \E i \in 1..Len(players) : players[i].name \in {<<97>>, <<65>>}

\* C16: in every state reachable through addPlayer, bulk add and player
\* edit, no two players of the roster have names equal ignoring case.
C16_NamesUnique ==
    \A i, j \in 1..Len(players) :
        i # j => ~SameName(players[i].name, players[j].name)

\* a text the import must reject: unparsable (or blank), not an object
\* with a players field, or with a players field that is not a sequence
Unacceptable(data) ==
    \/ data.kind # "json"
    \/ data.value.type # "object"
    \/ "players" \notin DOMAIN data.value.fields
    \/ data.value.fields.players.type # "array"

\* C17: an import whose data is unparsable, has no players field, or whose
\* players field is not a sequence is rejected as a whole: every component
\* of the session state and the persisted snapshot are as before.
C17_BadImportRejected ==
    [][\A data \in ImportTexts :
          (doImport(data) /\ Unacceptable(data))
          => (/\ UNCHANGED <<stateVars, storage, nextPlayerId>>
              /\ toast'.type = "error")]_vars

C17_Witness ==
    /\ toast.msg = "invalidFormat"
    /\ Len(currentMatches) > 0
    /\ Len(players) > 0

\* the component a snapshot gives for a key; a snapshot that lacks the key
\* gives what an empty session holds
Given(fields, key, empty) == IF key \in DOMAIN fields THEN fields[key] ELSE empty

\* C18: after a successful import every component of the state (players,
\* matches, queue, active matches, rounds, round counter, settings) is the
\* one given by the imported snapshot, and none is carried over from the
\* prior state.
C18_ImportReplaces ==
    [][\A data \in ImportTexts :
          (doImport(data) /\ toast'.msg = "imported")
          => LET fields == data.value.fields
             IN /\ players' = fields.players.items
                /\ Deref(matchObjs', matches') = Given(fields, "matches", <<>>)
                /\ Deref(matchObjs', matchQueue') = Given(fields, "matchQueue", <<>>)
                /\ Deref(matchObjs', currentMatches')
                      = Given(fields, "currentMatches", <<>>)
                /\ rounds' = Given(fields, "rounds", <<>>)
                /\ currentRound' = Given(fields, "currentRound", 0)
                /\ settings' = Given(fields, "settings", DefaultSettings)]_vars

\* C20: a tick of the periodic display timer (the per-match elapsed timer or
\* the rental countdown), at any point between user operations, leaves
\* players, matches, the queue, the active set, rounds and settings
\* unchanged.
C20_TickFrame ==
    [][(matchTimerTick \/ rentalTick)
          => UNCHANGED <<players, matchObjs, matches, currentMatches, matchQueue,
                         rounds, currentRound, settings>>]_vars

\* the rental time ran out while a match was playing
C20_Witness ==
    /\ toast.msg = "rentalExpired"
    /\ ~rentalTimer.isRunning
    /\ Len(currentMatches) = 1
    /\ \E i \in 1..Len(players) : players[i].isPlaying

-----------------------------------------------------------------------------
\* Persistence

\* what JSON.stringify(state) gives in the current state
Snapshot ==
    Serialize(players, matchObjs, matches, currentMatches, matchQueue, rounds,
              currentRound, settings, rentalTimer)

\* C21: every step that changes the session state (a player added, removed,
\* edited or rested, a round generated, a dispatch, a completion, a score, a
\* shuffle, a settings change, an import, a reset) leaves in the store the
\* snapshot of the state as it is after the step.
C21_SnapshotCurrent ==
    [][Snapshot' # Snapshot => storage' = <<Snapshot'>>]_vars

\* a session with players has been reset and the store holds the empty state
C21_Witness ==
    /\ toast.msg = "allCleared"
    /\ nextPlayerId > 1
    /\ players = <<>>
    /\ storage = <<Snapshot>>

-----------------------------------------------------------------------------
\* Dispatch

\* the court numbers of 1..courtCount no active match holds
FreeCourts ==
    {c \in 1..settings.courtCount :
        \A r \in Range(currentMatches) : matchObjs[r].court # c}

\* the k-th free court in ascending order
NthFree(k) ==
    CHOOSE c \in FreeCourts : Cardinality({x \in FreeCourts : x < c}) = k - 1

\* the matches a step adds to the active set, in the order they are added
Dispatched ==
    SubSeq(currentMatches', Len(currentMatches) + 1, Len(currentMatches'))

\* the members of the first k - 1 matches the step dispatches
BusyBefore(k) ==
    UNION {Members(matchObjs[Dispatched[j]]) : j \in 1..(k - 1)}

\* m can be dispatched as the k-th match of the step: its players are in
\* the roster and, unless multi-court is enabled, not busy, neither before
\* the step nor by one of the k - 1 matches dispatched ahead of it
EligibleAt(m, k) ==
    \A pid \in Members(m) :
        /\ Holders(players, pid) # {}
        /\ \/ settings.multiCourt
           \/ /\ pid \notin BusyBefore(k)
              /\ \A i \in Holders(players, pid) : ~players[i].isPlaying

\* the place of the queue entry r
Position(r) == CHOOSE j \in 1..Len(matchQueue) : matchQueue[j] = r

\* C22: startNext fills the free courts in ascending court number; the
\* match it dispatches for a court is the earliest entry of the queue, as
\* left by the dispatches before it, whose players are all in the roster and
\* not busy (or multi-court is enabled); the entries passed over stay in the
\* queue in their order; and once a court finds no eligible entry no later
\* court is filled.
C22_DispatchOrder ==
    [][startNextMatch =>
         /\ currentMatches' = currentMatches \o Dispatched
         /\ Len(Dispatched) <= Cardinality(FreeCourts)
         /\ \A k \in 1..Len(Dispatched) :
               /\ Dispatched[k] \in Range(matchQueue)
               /\ matchObjs'[Dispatched[k]].court = NthFree(k)
               /\ EligibleAt(matchObjs[Dispatched[k]], k)
               /\ \A j \in 1..(Position(Dispatched[k]) - 1) :
                     \/ matchQueue[j] \in Range(SubSeq(Dispatched, 1, k - 1))
                     \/ ~EligibleAt(matchObjs[matchQueue[j]], k)
         /\ matchQueue' = SelectSeq(matchQueue, LAMBDA r : r \notin Range(Dispatched))
         /\ Len(Dispatched) < Cardinality(FreeCourts)
               => \A r \in Range(matchQueue') :
                     ~EligibleAt(matchObjs[r], Len(Dispatched) + 1)]_vars

\* a dispatch has passed over the head of the queue, whose players are
\* busy, and started a match generated after it
C22_Witness ==
    /\ toast.msg = "matchesStarted"
    /\ ~settings.multiCourt
    /\ matchQueue # <<>>
    /\ \E r \in Range(currentMatches) :
          /\ matchObjs[r].id > matchObjs[matchQueue[1]].id
          /\ \E pid \in Members(matchObjs[matchQueue[1]]) : Busy(pid)

\* the number of matches the step dispatches that the player pid is in
DispatchesOf(pid) ==
    Cardinality({k \in 1..Len(Dispatched) : pid \in Members(matchObjs[Dispatched[k]])})

\* C23: every match startNext dispatches leaves the queue and joins the
\* active set with status playing and a court that was free, no two of them
\* the same court; each dispatch sets isPlaying and adds exactly 1 to the
\* matchCount of every member; players in no dispatched match are unchanged.
C23_DispatchEffects ==
    [][startNextMatch =>
         /\ \A k \in 1..Len(Dispatched) :
               LET r == Dispatched[k]
               IN /\ r \in Range(matchQueue) \ Range(currentMatches)
                  /\ r \notin Range(matchQueue')
                  /\ matchObjs'[r] = [matchObjs[r] EXCEPT !.status = "playing",
                                                          !.court = matchObjs'[r].court]
                  /\ matchObjs'[r].court \in FreeCourts
                  /\ \A j \in 1..(k - 1) :
                        matchObjs'[Dispatched[j]].court # matchObjs'[r].court
         /\ Len(players') = Len(players)
         /\ \A i \in 1..Len(players) :
               players'[i] =
                  IF DispatchesOf(players[i].id) = 0 THEN players[i]
                  ELSE [players[i] EXCEPT
                           !.isPlaying = TRUE,
                           !.matchCount = @ + DispatchesOf(players[i].id)]]_vars

\* a dispatch has started a match of players counted once while another
\* player, in no active match, stayed idle with a count of zero
C23_Witness ==
    /\ toast.msg = "matchesStarted"
    /\ \E i, j \in 1..Len(players) :
          /\ players[i].isPlaying /\ players[i].matchCount = 1
          /\ players[i].id \in ActiveMembers
          /\ ~players[j].isPlaying /\ players[j].matchCount = 0
          /\ players[j].id \notin ActiveMembers

\* the notice startNext shows
Outcome(type, msg) == toast' = [type |-> type, msg |-> msg]

\* C24 as claimed: startNext reports the courts-full error whenever no court
\* is free, the no-eligible-match error whenever a court is free and nothing
\* is started, success otherwise.
C24_OutcomeByCourts ==
    [][startNextMatch =>
         IF FreeCourts = {} THEN Outcome("error", "courtsFull")
         ELSE IF Dispatched = <<>> THEN Outcome("error", "cannotStart")
         ELSE Outcome("success", "matchesStarted")]_vars

\* C24 as amended: with an empty queue startNext shows the queue-empty
\* notice; with a queue that is not empty it reports the courts-full error
\* whenever no court is free, the no-eligible-match error whenever a court is
\* free and nothing is started, success otherwise.
C24_Outcome ==
    [][startNextMatch =>
         IF matchQueue = <<>> THEN Outcome("info", "queueEmpty")
         ELSE IF FreeCourts = {} THEN Outcome("error", "courtsFull")
         ELSE IF Dispatched = <<>> THEN Outcome("error", "cannotStart")
         ELSE Outcome("success", "matchesStarted")]_vars

\* startNext has reported full courts with a match waiting in the queue
C24_Witness ==
    /\ toast = [type |-> "error", msg |-> "courtsFull"]
    /\ matchQueue # <<>>
    /\ FreeCourts = {}

-----------------------------------------------------------------------------
\* Round generation

\* the entries a step appends to the match collection
Added == SubSeq(matches', Len(matches) + 1, Len(matches'))

\* the ids of the match collection
CollectionIds == Ids(Deref(matchObjs, matches))

C26_NoBusyNoResting ==
    [][(generateRound /\ toast'.msg = "roundCreated") =>
         \A i \in 1..Len(Added) :
            \A pid \in Members(matchObjs'[Added[i]]) :
               /\ Holders(players, pid) # {}
               /\ \A h \in Holders(players, pid) :
                     ~players[h].isPlaying /\ ~players[h].isResting]_vars

\* a round with a match has been generated while players of the roster
\* were busy in an active match (generateRound leaves the players as they
\* were): the new match has none of them
C26_Witness ==
    /\ toast.msg = "roundCreated"
    /\ rounds[Len(rounds)].matches # <<>>
    /\ matchQueue # <<>>
    /\ matchObjs[matchQueue[Len(matchQueue)]].roundId = rounds[Len(rounds)].id
    /\ \E i \in 1..Len(players) : players[i].isPlaying /\ players[i].id \in ActiveMembers
    /\ \A i \in 1..Len(players) :
          players[i].id \in Members(matchObjs[matchQueue[Len(matchQueue)]])
             => ~players[i].isPlaying

-----------------------------------------------------------------------------
\* Order of the players in a round

\* the member ids of matches in emission order, team1 then team2 of each
RECURSIVE EmittedIds(_)
EmittedIds(ms) ==
    IF ms = <<>> THEN <<>>
    ELSE Head(ms).team1 \o Head(ms).team2 \o EmittedIds(Tail(ms))

\* the players of the round in emission order
Emitted == EmittedIds(Created)

\* the roster position of the player pid
RosterIndex(pid) == CHOOSE i \in Holders(players, pid) : TRUE

CountOf(pid) == players[RosterIndex(pid)].matchCount

\* the order of balanced singles after the fairness pass: fewer matches
\* first, then the weaker level, then the earlier place in the roster
Precedes(p, q) ==
    \/ CountOf(p) < CountOf(q)
    \/ /\ CountOf(p) = CountOf(q)
       /\ \/ WeightOf(p) < WeightOf(q)
          \/ WeightOf(p) = WeightOf(q) /\ RosterIndex(p) < RosterIndex(q)

\* C27: in the round generated, a player never comes after one with a
\* larger matchCount, whatever the pairing mode; in balanced singles
\* players with equal matchCount keep the ascending-skill order of the mode
\* (equal levels in roster order), so the players of the round are the first
\* of that order and the k-th match pairs those at its ranks 2k-1 and 2k.
C27_StableFairness ==
    Len(Created) > 0 =>
       /\ \A a, b \in 1..Len(Emitted) :
             a < b => CountOf(Emitted[a]) <= CountOf(Emitted[b])
       /\ (settings.pairingMode = "balanced" /\ settings.matchType = "singles") =>
             /\ \A a, b \in 1..Len(Emitted) : a < b => Precedes(Emitted[a], Emitted[b])
             /\ \A k \in 1..Len(Created) :
                   /\ Created[k].team1 = <<Emitted[2 * k - 1]>>
                   /\ Created[k].team2 = <<Emitted[2 * k]>>
             /\ \A i \in 1..Len(players) :
                   (Eligible(players[i]) /\ players[i].id \notin Placed)
                      => \A a \in 1..Len(Emitted) : Precedes(Emitted[a], players[i].id)

\* balanced singles on a roster that lists a pro ahead of a beginner, both
\* with no match played, and players with three matches: the first match is
\* the beginner against the pro, the second has the players with three
C27_Witness ==
    /\ settings.pairingMode = "balanced"
    /\ settings.matchType = "singles"
    /\ Len(Created) = 2
    /\ WeightOf(Created[1].team1[1]) < WeightOf(Created[1].team2[1])
    /\ RosterIndex(Created[1].team1[1]) > RosterIndex(Created[1].team2[1])
    /\ CountOf(Created[1].team2[1]) = 0
    /\ CountOf(Created[2].team1[1]) = 3
    /\ WeightOf(Created[2].team1[1]) < WeightOf(Created[1].team2[1])

\* C28: in separate mode with all match counts equal, the players of the
\* round in emission order (team1 then team2 of each match) are in
\* non-increasing level: pro, advanced, intermediate, beginner.
C28_SeparateByLevel ==
    (settings.pairingMode = "separate" /\ Len(Created) > 0) =>
       \A a, b \in 1..Len(Emitted) :
          a < b => WeightOf(Emitted[a]) >= WeightOf(Emitted[b])

\* separate mode has emitted a doubles match that mixes levels, the single
\* pro first, in a roster that lists the pro last
C28_Witness ==
    /\ settings.pairingMode = "separate"
    /\ settings.matchType = "doubles"
    /\ Len(Created) = 1
    /\ players[Len(players)].level = "pro"
    /\ Created[1].team1[1] = players[Len(players)].id
    /\ WeightOf(Created[1].team1[2]) < LEVEL_WEIGHTS["pro"]
    /\ WeightOf(Created[1].team2[2]) = LEVEL_WEIGHTS["beginner"]

-----------------------------------------------------------------------------
\* One match, one entity

\* the entries of the match collection after the step that have the id of
\* the match object r
CollectionEntries(r) ==
    {e \in Range(matches') : matchObjs'[e].id = matchObjs'[r].id}

\* C29: whenever startNext dispatches a match, or completeMatch or
\* completeCurrentMatches completes one, the entry of the match collection
\* with its id shows the same new status and court, also in a session
\* restored from the stored snapshot or from an import.
C29_OneEntity ==
    [][/\ startNextMatch =>
            \A r \in Range(Dispatched) : \A e \in CollectionEntries(r) :
               /\ matchObjs'[e].status = "playing"
               /\ matchObjs'[e].court = matchObjs'[r].court
       /\ (completeCurrentMatches \/ \E matchId \in StoredMatchIds : completeMatch(matchId)) =>
            \A r \in Completed : \A e \in CollectionEntries(r) :
               /\ matchObjs'[e].status = "completed"
               /\ matchObjs'[e].court = matchObjs'[r].court]_vars

-----------------------------------------------------------------------------
\* Ids that are not found

\* no match of the active set has the id
NotActive(matchId) == \A r \in Range(currentMatches) : matchObjs[r].id # matchId

\* C30: completeMatch and saveScore with a match id that is not in the
\* active set, and removePlayer and togglePlayerRest with a player id that
\* is not in the roster, change no state (saveScore shows its not-found
\* notice, the others nothing); and completeMatch on an active match
\* completes it, takes it out of the active set and leaves every member that
\* is in the roster with isPlaying false, also when a member is missing
\* from the roster, which the completion leaves as it is.
C30_NotFoundNoOp ==
    [][/\ \A matchId \in MatchIds :
             (NotActive(matchId) /\ completeMatch(matchId)) => UNCHANGED vars
       /\ \A matchId \in MatchIds :
             (NotActive(matchId) /\ saveScore(matchId, ExampleSheet))
                => UNCHANGED <<stateVars, storage, nextPlayerId>>
       /\ \A id \in PlayerIds, confirmed \in BOOLEAN :
             (Holders(players, id) = {} /\ removePlayer(id, confirmed))
                => UNCHANGED vars
       /\ \A id \in PlayerIds :
             (Holders(players, id) = {} /\ togglePlayerRest(id)) => UNCHANGED vars
       /\ \A matchId \in MatchIds :
             (~NotActive(matchId) /\ completeMatch(matchId)) =>
                /\ Completed # {}
                /\ Ids(players') = Ids(players)
                /\ \A r \in Completed :
                      /\ matchObjs[r].id = matchId
                      /\ matchObjs'[r].status = "completed"
                      /\ \A pid \in Members(matchObjs[r]) :
                            \A h \in Holders(players', pid) : ~players'[h].isPlaying]_vars

\* a match has been completed one of whose members had been removed from
\* the roster; the other member is in the roster and not playing
C30_Witness ==
    /\ toast.msg = "matchCompleted"
    /\ \E r \in Range(matches) :
          /\ matchObjs[r].status = "completed"
          /\ r \notin Range(currentMatches)
          /\ \E pid, qid \in Members(matchObjs[r]) :
                /\ Holders(players, pid) = {}
                /\ \E h \in Holders(players, qid) : ~players[h].isPlaying

-----------------------------------------------------------------------------
\* The queue shuffled

\* how often the reference r occurs in the sequence q
Occurrences(q, r) == Cardinality({i \in 1..Len(q) : q[i] = r})

-----------------------------------------------------------------------------
\* Where a match is

\* the number of entries of the sequence of references q whose match has
\* the id
EntriesOf(q, id) == Cardinality({i \in 1..Len(q) : matchObjs[q[i]].id = id})

\* C32: in a session that started empty and was neither loaded again nor
\* imported into, every match of the match collection is in the queue
\* exactly once, pending and without a court, or in the active set exactly
\* once, playing on a court, or in neither and completed.
C32_OnePlace ==
    \A i \in 1..Len(matches) :
       LET m == matchObjs[matches[i]]
           queued == EntriesOf(matchQueue, m.id)
           active == EntriesOf(currentMatches, m.id)
       IN \/ queued = 1 /\ active = 0 /\ m.status = "pending" /\ m.court = NoCourt
          \/ queued = 0 /\ active = 1 /\ m.status = "playing" /\ m.court >= 1
          \/ queued = 0 /\ active = 0 /\ m.status = "completed"

\* one match of the collection has been scored and is completed while the
\* other is playing
C32_Witness ==
    /\ Len(matches) = 2
    /\ Len(currentMatches) = 1
    /\ matchQueue = <<>>
    /\ \E i \in 1..2 :
          /\ matchObjs[matches[i]].status = "completed"
          /\ matchObjs[matches[i]].winner # "none"

-----------------------------------------------------------------------------
\* Courts

\* C33: no two matches of the active set have the same court number,
\* whatever the court count is changed to while matches are playing.
C33_CourtsDistinct ==
    \A i, j \in 1..Len(currentMatches) :
       i # j => matchObjs[currentMatches[i]].court # matchObjs[currentMatches[j]].court

\* with a match playing on court 2 and the court count brought down to 1,
\* a match has been dispatched to court 1
C33_Witness ==
    /\ toast.msg = "matchesStarted"
    /\ settings.courtCount = 1
    /\ Len(currentMatches) = 2
    /\ matchObjs[currentMatches[1]].court = 2
    /\ matchObjs[currentMatches[2]].court = 1

\* C34: every match of the active set has a court number between 1 and the
\* current courtCount, and the active set has no more matches than
\* courtCount, also after the court count is changed.
C34_CourtsWithinCount ==
    /\ \A i \in 1..Len(currentMatches) :
          matchObjs[currentMatches[i]].court \in 1..settings.courtCount
    /\ Len(currentMatches) <= settings.courtCount

-----------------------------------------------------------------------------
\* Busy players

\* C35: with multi-court never enabled and nothing imported, a player of
\* the roster has isPlaying = true if and only if the player is a member of
\* a match of the active set.
C35_BusyIffActive ==
    \A i \in 1..Len(players) :
       players[i].isPlaying <=> players[i].id \in ActiveMembers

\* a match is playing, its members busy, while another match with the
\* same members waits in the queue
C35_Witness ==
    /\ Len(currentMatches) = 1
    /\ matchQueue # <<>>
    /\ Members(matchObjs[matchQueue[1]]) = ActiveMembers
    /\ \A i \in 1..Len(players) : players[i].isPlaying
    /\ Len(players) = 2

-----------------------------------------------------------------------------
\* Results and dispatches

\* C36: in a session that started empty, with nothing imported, every
\* player has wins + losses <= matchCount, an absent counter counting as 0.
C36_ResultsWithinCount ==
    \A i \in 1..Len(players) :
       Num(players[i].wins) + Num(players[i].losses) <= players[i].matchCount

\* a player has won one match and lost another, with a match count of two,
\* and no match is playing
C36_Witness ==
    \E i \in 1..Len(players) :
       /\ players[i].wins = 1
       /\ players[i].losses = 1
       /\ players[i].matchCount = 2
       /\ currentMatches = <<>>

-----------------------------------------------------------------------------
\* Liveness of dispatch

\* the match with the id waits in the queue
Waiting(id) == \E r \in Range(matchQueue) : matchObjs[r].id = id

\* the match with the id is playing
Playing(id) == \E r \in Range(currentMatches) : matchObjs[r].id = id

\* the match with the id is completed
Done(id) ==
    \E r \in Range(matches) : matchObjs[r].id = id /\ matchObjs[r].status = "completed"

\* C37: with multi-court never enabled, at least one court, the rounds
\* generated once and for all, no player removed and nothing imported, and
\* startNext and completion kept being invoked (weak fairness on both),
\* every match waiting in the queue is eventually playing and eventually
\* completed, and a queue that is not empty eventually becomes empty.
C37_DispatchLive ==
    /\ \A id \in 1..MaxPool : Waiting(id) ~> Playing(id)
    /\ \A id \in 1..MaxPool : Waiting(id) ~> Done(id)
    /\ (matchQueue # <<>>) ~> (matchQueue = <<>>)

\* four matches of two rounds, the second round with the players of the
\* first, have all been dispatched and completed
C37_Witness ==
    /\ Len(matches) = 4
    /\ Len(rounds) = 2
    /\ matchQueue = <<>>
    /\ currentMatches = <<>>
    /\ \A id \in 1..MaxPool : Done(id)
    /\ Members(matchObjs[matches[1]]) = Members(matchObjs[matches[3]])

-----------------------------------------------------------------------------
\* C38: within one generated round no player id appears in more than one
\* match of the round: two different matches that carry the same round id
\* have no member in common.
C38_RoundDisjoint ==
    \A i, j \in 1..Len(matchObjs) :
        (i # j /\ matchObjs[i].roundId = matchObjs[j].roundId)
            => Members(matchObjs[i]) \cap Members(matchObjs[j]) = {}

\* a round of two singles matches has been generated from four players
C38_Witness ==
    /\ Len(rounds) = 1
    /\ Len(rounds[1].matches) = 2
    /\ Len(matchObjs) = 2
    /\ matchObjs[1].roundId = 1
    /\ matchObjs[2].roundId = 1
    /\ Cardinality(Members(matchObjs[1]) \cup Members(matchObjs[2])) = 4

-----------------------------------------------------------------------------
\* C39: in every reachable state every player id in a team of a pending
\* (queued) or playing match is the id of a player of the roster.
C39_MembersInRoster ==
    \A r \in Range(matchQueue) \cup Range(currentMatches) :
        \A id \in Members(matchObjs[r]) : FindPlayer(players, id) # 0

-----------------------------------------------------------------------------
\* the members of the match waiting at position i of the queue
Queued(i) == Members(matchObjs[matchQueue[i]])

\* C40 as stated: in every reachable state no player id appears in more than
\* one pending match of the queue.
C40_QueueDisjoint ==
    \A i, j \in 1..Len(matchQueue) : i # j => Queued(i) \cap Queued(j) = {}

\* C40: in every reachable state no player id appears in more than one
\* pending match of the queue among the matches of one round; matches of
\* different rounds may share players while they wait.
C40_QueueRoundDisjoint ==
    \A i, j \in 1..Len(matchQueue) :
        (i # j /\ matchObjs[matchQueue[i]].roundId = matchObjs[matchQueue[j]].roundId)
            => Queued(i) \cap Queued(j) = {}

\* two rounds of two matches wait in the queue, and some player is a member
\* of a match of each round
C40_Witness ==
    /\ Len(matchQueue) = 4
    /\ \E i, j \in 1..Len(matchQueue) :
          /\ matchObjs[matchQueue[i]].roundId = 1
          /\ matchObjs[matchQueue[j]].roundId = 2
          /\ Queued(i) \cap Queued(j) # {}
    /\ \E i, j \in 1..Len(matchQueue) :
          /\ i # j
          /\ matchObjs[matchQueue[i]].roundId = matchObjs[matchQueue[j]].roundId

====
